---- MODULE Spec2Model ----
(***************************************************************************)
(* Clip Capture Engine of the YouTube/Archive annotator view               *)
(* (YouTubeView.saveArchiveClip and the handlers that share the primary    *)
(* media element with it), as a state machine.  One action per task of     *)
(* the event loop: the code between two suspension points (await) of the   *)
(* async function runs as one atomic step.  The pure functions of the      *)
(* plugin (window normalization, file classification, scoring and          *)
(* selection) are operators; PureSpec applies them to bounded inputs.      *)
(***************************************************************************)
EXTENDS Integers, Sequences, FiniteSets, TLC

\* ------------------------------------------------------------------ bounds
\* number of saveArchiveClip invocations that are in flight at once
MaxCalls == 2
\* number of PCM chunks the worklet posts before the model stops counting
MaxChunks == 1

Calls == 1..MaxCalls

\* requested (startSec, endSec) pairs: inverted and longer than the cap
ReqPairs == {<<80, 10>>}
\* targets of [mm:ss](#seek-N) links
SeekTargets == {5}
\* position of the primary element when the run starts
InitTimes == {15}

\* ------------------------------------------------------- program constants
MAX_CLIP_SEC == 60
SEEK_TIMEOUT_MS == 4000
FLOW_TIMEOUT_MS == 300
STOP_MARGIN_MS == 120
WAIT_MARGIN_MS == 160
FRAME == 128
WAV_HEADER == 44

VARIABLES
  archiveMediaEl,  \* what the view has mounted: "media", "iframe" or "none"
  el,              \* the primary media element: paused, ended, currentTime
  isClipping,      \* the single-flight guard
  sess,            \* per invocation: the locals of saveArchiveClip and its clone/graph
  call             \* one call of a pure function: its name, arguments and result

captureVars == <<archiveMediaEl, el, isClipping, sess>>
vars == <<archiveMediaEl, el, isClipping, sess, call>>

Max(a, b) == IF a >= b THEN a ELSE b
Min(a, b) == IF a <= b THEN a ELSE b

\* ------------------------------------------------------------ pure helpers

normalizeWindow_moveStart(startSec, endSec) ==
  LET e == Max(startSec, endSec)
      s == Max(0, Min(startSec, endSec))
  IN  [s |-> IF e - s > MAX_CLIP_SEC THEN e - MAX_CLIP_SEC ELSE s, e |-> e,
       durationMs |-> Max(1, Min(e - s, MAX_CLIP_SEC) * 1000)]
\* 2) Normalize window
normalizeWindow(startSec, endSec) ==
  LET s  == Max(0, Min(startSec, endSec))
      e0 == Max(startSec, endSec)
      e  == IF e0 - s > MAX_CLIP_SEC THEN s + MAX_CLIP_SEC ELSE e0
  IN  [s |-> s, e |-> e, durationMs |-> Max(1, (e - s) * 1000)]

isClippingGuard_skip(g) == FALSE
\* if (this.isClipping) { Notice; return; }
isClippingGuard(g) == g

\* function timeout(ms, why): the promise it returns settles by resolving
timeout(ms) == "resolve"

once_any(type, ev) == "resolve"
\* function once(target, type): resolves on `type`, rejects on "error"
once(type, ev) ==
  IF ev = type THEN "resolve" ELSE IF ev = "error" THEN "reject" ELSE "pending"

encodeWAV_headerOnly(total) == WAV_HEADER + 2 * total
\* function encodeWAV(chunks, total, sampleRate): size in bytes of the blob
encodeWAV(total) == IF total = 0 THEN 0 ELSE WAV_HEADER + 2 * total

\* const wasPlaying = !el.paused && !el.ended
wasPlayingOf(elv) == ~elv.paused /\ ~elv.ended

restorePrimary_alwaysPlay(r, elv) ==
  [elv EXCEPT !.currentTime = r.e, !.ended = FALSE, !.paused = FALSE]
\* try { el.currentTime = e; if (wasPlaying) await el.play(); } catch {}
restorePrimary(r, elv) ==
  [elv EXCEPT !.currentTime = r.e,
              !.ended = FALSE,
              !.paused = IF r.wasPlaying THEN FALSE ELSE @]

cleanup_noClose(r) == [r EXCEPT !.nodes = "disconnected"]
\* function cleanup(): disconnect the three nodes, close the context
cleanup(r) == [r EXCEPT !.nodes = "disconnected", !.ctx = "closed"]

\* ------------------------------------------------------------------- state

NoSess ==
  [pc |-> "idle", s |-> 0, e |-> 0, durationMs |-> 0,
   wasPlaying |-> FALSE, released |-> FALSE, outcome |-> "none",
   clone |-> "none", cloneSrc |-> "none", clonePlaying |-> FALSE,
   metaLoaded |-> FALSE, seekSet |-> FALSE,
   blobUrl |-> "none", blobRevokes |-> 0, endedListener |-> FALSE,
   seekedFired |-> FALSE, canplayFired |-> FALSE, seekTimeoutFired |-> FALSE,
   ready |-> "none",
   ctx |-> "none", nodes |-> "none",
   workletUrl |-> "none", workletRevokes |-> 0,
   mr |-> "none", webm |-> 0, totalSamples |-> 0, stopTimer |-> "none",
   ext |-> "none", finalSize |-> 0, written |-> FALSE, embed |-> "none"]

\* no pure function is being called
NoCall == [fn |-> "none", done |-> FALSE]

Init ==
  /\ call = NoCall
  /\ archiveMediaEl \in {"media", "iframe", "none"}
  /\ el \in {x \in [paused : BOOLEAN, ended : BOOLEAN, currentTime : InitTimes] :
               x.ended => x.paused}
  /\ isClipping = FALSE
  /\ sess = [i \in Calls |-> NoSess]

\* the state a step of invocation i works on: its locals r, the primary
\* element el and the guard g
Cur(i) == [r |-> sess[i], el |-> el, g |-> isClipping]

\* a step of invocation i that ends in b
Commit(i, b) ==
  /\ sess' = [sess EXCEPT ![i] = b.r]
  /\ el' = b.el
  /\ isClipping' = b.g
  /\ UNCHANGED <<archiveMediaEl, call>>

\* saveArchiveClip has returned or thrown: control is back in the caller
Terminal == {"done", "thrown", "rejected", "notReady"}

\* no invocation is in the middle of returning
Quiet == \A i \in Calls : sess[i].pc \notin Terminal

\* the pc after the primary element has been restored: `await el.play()`
\* suspends only when wasPlaying
pcAfterRestore(r) == IF r.wasPlaying THEN "restorePlay" ELSE "done"

\* URL.revokeObjectURL(workletURL) in the catch of the worklet's try
revokeWorklet(r) ==
  [r EXCEPT !.workletUrl = "revoked", !.workletRevokes = @ + 1]

\* } finally { URL.revokeObjectURL(workletURL); }
finallyRevoke(r) ==
  [r EXCEPT !.workletUrl = "revoked", !.workletRevokes = @ + 1]

\* URL.revokeObjectURL(blobUrl), the clone's "ended" listener
revokeBlob(r) ==
  [r EXCEPT !.blobUrl = "revoked", !.blobRevokes = @ + 1,
            !.endedListener = FALSE]

\* the locals and listeners that the rest of saveArchiveClip never reads
\* once the clone is removed
dropCaptureLocals(r) ==
  [r EXCEPT !.cloneSrc = "none", !.clonePlaying = FALSE, !.metaLoaded = FALSE,
            !.seekSet = FALSE, !.endedListener = FALSE,
            !.seekedFired = FALSE, !.canplayFired = FALSE,
            !.seekTimeoutFired = FALSE, !.ready = "none",
            !.mr = "none", !.webm = 0, !.totalSamples = 0,
            !.stopTimer = "none"]

\* ------------------------------------------- saveArchiveClip: exit paths

\* catch of the source preparation: Notice, guard released, clone removed
failPrepare(b) ==
  [b EXCEPT !.r = dropCaptureLocals(
                    [b.r EXCEPT !.pc = "done", !.outcome = "prepFail",
                                !.released = TRUE, !.clone = "removed"]),
            !.g = FALSE]

\* the exits taken after the primary element was paused and before the
\* recording was finalized: guard released, clone removed, primary restored
exitReleased(b, why) ==
  [r  |-> dropCaptureLocals(
            [b.r EXCEPT !.pc = pcAfterRestore(b.r), !.outcome = why,
                        !.released = TRUE, !.clone = "removed"]),
   el |-> restorePrimary(b.r, b.el),
   g  |-> FALSE]

\* the exits taken while persisting, after the guard was released: Notice,
\* primary restored
exitRestored(b, why) ==
  [b EXCEPT !.r = [b.r EXCEPT !.pc = pcAfterRestore(b.r), !.outcome = why],
            !.el = restorePrimary(b.r, b.el)]

\* an exception that no try block of saveArchiveClip catches
escape(b, why) ==
  [b EXCEPT !.r = [b.r EXCEPT !.pc = "thrown", !.outcome = why]]

\* ------------------------------------------- saveArchiveClip: the phases

\* Pause main, seek the clone, start the seeked/canplay race with its timeout
afterPrepare(b) ==
  [b EXCEPT !.r = [b.r EXCEPT !.pc = "seekSeeked",
                              !.wasPlaying = wasPlayingOf(b.el),
                              !.seekSet = TRUE],
            !.el = [b.el EXCEPT !.paused = TRUE]]

\* what had happened on the clone when the race of the seek settled
readiness(r) ==
  IF r.seekedFired /\ r.canplayFired THEN "signals"
  ELSE IF r.seekTimeoutFired THEN "timeout"
  ELSE "none"

\* 5) WebAudio graph, up to `await audioCtx.audioWorklet.addModule(workletURL)`
startGraph(b, audioCtxAvail) ==
  IF ~audioCtxAvail
  THEN exitReleased(b, "noWebAudio")
  ELSE [b EXCEPT !.r = [b.r EXCEPT !.pc = "worklet", !.ctx = "open",
                                   !.workletUrl = "live",
                                   !.ready = readiness(b.r),
                                   !.seekedFired = FALSE,
                                   !.canplayFired = FALSE,
                                   !.seekTimeoutFired = FALSE]]

\* 6) start the WebM/Opus recorder if supported, 7) set the stop timer
startRecorder(b, canWebm) ==
  [b EXCEPT !.r = [b.r EXCEPT !.pc = "recording",
                              !.mr = IF canWebm THEN "recording" ELSE "none",
                              !.stopTimer = "pending"]]

useWebmBlob_anySize(mr, webm) == mr = "stopped"
\* if (mr && webmDone) { try { webmBlob = await webmDone;
\*   if (webmBlob && webmBlob.size > 0) ... } catch { wav } } else { wav }
useWebmBlob(mr, webm) == mr = "stopped" /\ webm > 0

\* Build outputs (after the wait and webmDone), Cleanup, release the guard,
\* and the empty-capture exit
finalize(b) ==
  LET r        == b.r
      wavSize  == encodeWAV(r.totalSamples)
      useWebm  == useWebmBlob(r.mr, r.webm)
      size     == IF useWebm THEN r.webm ELSE wavSize
      r1 == dropCaptureLocals(cleanup([r EXCEPT
              !.ext = IF useWebm THEN "webm" ELSE "wav",
              !.finalSize = size,
              !.clone = "removed", !.released = TRUE]))
  IN  IF size = 0
      THEN [r  |-> [r1 EXCEPT !.pc = pcAfterRestore(r1), !.outcome = "empty"],
            el |-> restorePrimary(r1, b.el),
            g  |-> FALSE]
      ELSE [r |-> [r1 EXCEPT !.pc = "persistFolder"], el |-> b.el, g |-> FALSE]

\* --------------------------------------------------------------- actions

\* saveArchiveClip(startSec, endSec) up to its first suspension point.
\* src: what the clone reports as its source; durKnown: clone.duration is set
\* ("empty": neither currentSrc nor a src attribute, the media comes from
\* the <source> child the clone has inherited)
isMediaElement_any(mounted) == mounted # "none"

\* mediaEl instanceof HTMLMediaElement: true of the native audio or video
\* element, false of the iframe fallback and of no element
isMediaElement(mounted) == mounted = "media"

SaveArchiveClip(i, startSec, endSec, src, durKnown) ==
  LET w  == normalizeWindow(startSec, endSec)
      r0 == [NoSess EXCEPT !.s = w.s, !.e = w.e, !.durationMs = w.durationMs,
                           !.clone = "attached", !.cloneSrc = src,
                           !.metaLoaded = durKnown]
      b0 == [r |-> r0, el |-> el, g |-> TRUE]
  IN  /\ Quiet
      /\ sess[i].pc = "idle"
      /\ \A j \in Calls : j < i => sess[j].pc # "idle"
      /\ IF ~isMediaElement(archiveMediaEl)
         THEN Commit(i, [Cur(i) EXCEPT !.r.pc = "notReady"])
         ELSE IF isClippingGuard(isClipping)
         THEN Commit(i, [Cur(i) EXCEPT !.r.pc = "rejected"])
         ELSE IF src = "remote"
         THEN Commit(i, [b0 EXCEPT !.r.pc = "fetch"])
         ELSE IF ~durKnown
         THEN Commit(i, [b0 EXCEPT !.r.pc = "waitMeta"])
         ELSE Commit(i, afterPrepare(b0))

\* control is back in the caller of saveArchiveClip: the invocation's frame
\* is gone
Return(i) ==
  /\ sess[i].pc \in Terminal
  /\ sess' = [sess EXCEPT ![i] = NoSess]
  /\ UNCHANGED <<archiveMediaEl, el, isClipping, call>>

\* await fetch(currentSrc); if (!resp.ok) throw
FetchSettle(i, ok) ==
  /\ Quiet
  /\ sess[i].pc = "fetch"
  /\ IF ok
     THEN Commit(i, [Cur(i) EXCEPT !.r.pc = "respBlob"])
     ELSE Commit(i, failPrepare(Cur(i)))

\* await resp.blob(); createObjectURL; rewrite the clone's source
BlobSettle(i, ok) ==
  /\ Quiet
  /\ sess[i].pc = "respBlob"
  /\ IF ok
     THEN Commit(i, [Cur(i) EXCEPT !.r.pc = "waitMeta", !.r.blobUrl = "live",
                                   !.r.cloneSrc = "rewritten",
                                   !.r.metaLoaded = FALSE])
     ELSE Commit(i, failPrepare(Cur(i)))

\* the pcs at which a promise of once(clone, type) is pending, with its type
Awaited(pc) ==
  CASE pc = "waitMeta"    -> "loadedmetadata"
    [] pc = "seekSeeked"  -> "seeked"
    [] pc = "seekCanplay" -> "canplay"
    [] pc = "waitFlow"    -> "timeupdate"
    [] OTHER              -> "none"

\* the clone can fire ev now
CanFire(r, ev) ==
  /\ r.clone = "attached"
  /\ CASE ev = "loadedmetadata" -> r.pc = "waitMeta"
       [] ev = "seeked"         -> r.pc \in {"seekSeeked", "seekCanplay"}
                                   /\ ~r.seekedFired
       [] ev = "canplay"        -> r.pc \in {"seekSeeked", "seekCanplay"}
       [] ev = "timeupdate"     -> r.pc = "waitFlow"
       [] ev = "ended"          -> r.clonePlaying
       [] ev = "error"          -> Awaited(r.pc) # "none"
       [] OTHER                 -> FALSE

\* what the event itself changes on the clone
Fired(r, ev) ==
  CASE ev = "loadedmetadata" -> [r EXCEPT !.metaLoaded = TRUE]
    [] ev = "seeked"         -> [r EXCEPT !.seekedFired = TRUE]
    [] ev = "canplay"        -> [r EXCEPT !.canplayFired = TRUE]
    [] ev = "ended"          ->
         IF r.endedListener THEN revokeBlob([r EXCEPT !.clonePlaying = FALSE])
         ELSE [r EXCEPT !.clonePlaying = FALSE]
    [] OTHER                 -> r

\* an event of the hidden clone, delivered to the listeners saveArchiveClip
\* has registered on it
CloneEvent(i, ev, audioCtxAvail, canWebm) ==
  LET r == sess[i]
      b == [Cur(i) EXCEPT !.r = Fired(r, ev)]
      settle == IF Awaited(r.pc) = "none" THEN "pending"
                ELSE once(Awaited(r.pc), ev)
  IN  /\ Quiet
      /\ CanFire(r, ev)
      /\ CASE settle = "pending" -> Commit(i, b)
           [] settle = "resolve" /\ r.pc = "waitMeta" ->
                Commit(i, afterPrepare(
                  [b EXCEPT !.r.endedListener = (r.cloneSrc = "rewritten")]))
           [] settle = "resolve" /\ r.pc = "seekSeeked" ->
                Commit(i, [b EXCEPT !.r.pc = "seekCanplay"])
           [] settle = "resolve" /\ r.pc = "seekCanplay" ->
                Commit(i, startGraph(b, audioCtxAvail))
           [] settle = "resolve" /\ r.pc = "waitFlow" ->
                Commit(i, startRecorder(b, canWebm))
           [] settle = "reject" /\ r.pc = "waitMeta" ->
                Commit(i, failPrepare(b))
           [] settle = "reject" /\ r.pc \in {"seekSeeked", "seekCanplay"} ->
                Commit(i, exitReleased(b, "seekFail"))
           [] settle = "reject" /\ r.pc = "waitFlow" ->
                Commit(i, escape(b, "flowThrow"))

\* timeout(4000, "Seek/canplay timeout") settles the race of the seek
SeekTimeout(i, audioCtxAvail) ==
  LET b == [Cur(i) EXCEPT !.r.seekTimeoutFired = TRUE]
  IN  /\ Quiet
      /\ sess[i].pc \in {"seekSeeked", "seekCanplay"}
      /\ IF timeout(SEEK_TIMEOUT_MS) = "resolve"
         THEN Commit(i, startGraph(b, audioCtxAvail))
         ELSE Commit(i, exitReleased(b, "seekFail"))

\* await audioCtx.audioWorklet.addModule(workletURL), its catch and finally,
\* then the graph's nodes and connections
WorkletSettle(i, ok, graphOk, suspended) ==
  LET b == Cur(i)
      failed == exitReleased(
                  [b EXCEPT !.r = [revokeWorklet(b.r) EXCEPT !.ctx = "closed"]],
                  "workletFail")
      loaded == [b EXCEPT !.r = finallyRevoke(b.r)]
  IN  /\ Quiet
      /\ sess[i].pc = "worklet"
      /\ IF ~ok
         THEN IF failed.r.pc = "done"
              THEN Commit(i, [failed EXCEPT !.r = finallyRevoke(failed.r)])
              ELSE Commit(i, failed)
         ELSE IF ~graphOk
         THEN Commit(i, escape(loaded, "graphThrow"))
         ELSE Commit(i, [loaded EXCEPT
                !.r.nodes = "connected",
                !.r.pc = IF suspended THEN "ctxResume" ELSE "clonePlay"])

\* try { if (audioCtx.state === "suspended") await audioCtx.resume(); } catch {}
CtxResumeSettle(i) ==
  /\ Quiet
  /\ sess[i].pc = "ctxResume"
  /\ Commit(i, [Cur(i) EXCEPT !.r.pc = "clonePlay"])

\* try { await clone.play(); } catch { cleanup(); ... }
ClonePlaySettle(i, ok) ==
  /\ Quiet
  /\ sess[i].pc = "clonePlay"
  /\ IF ok
     THEN Commit(i, [Cur(i) EXCEPT !.r.pc = "waitFlow", !.r.clonePlaying = TRUE])
     ELSE Commit(i, exitReleased([Cur(i) EXCEPT !.r = cleanup(sess[i])],
                                 "playFail"))

\* timeout(300) settles the race with the first timeupdate
FlowTimeout(i, canWebm) ==
  /\ Quiet
  /\ sess[i].pc = "waitFlow"
  /\ timeout(FLOW_TIMEOUT_MS) = "resolve"
  /\ Commit(i, startRecorder(Cur(i), canWebm))

\* recorderNode.port.onmessage: one chunk of FRAME mono samples
PcmMessage(i) ==
  /\ Quiet
  /\ sess[i].nodes = "connected"
  /\ sess[i].ctx = "open"
  /\ sess[i].totalSamples < MaxChunks * FRAME
  /\ Commit(i, [Cur(i) EXCEPT !.r.totalSamples = @ + FRAME])

\* the delays of the two timers set when the recording starts
stopDelay_late(durationMs) == durationMs + 200

stopDelay(durationMs) == durationMs + STOP_MARGIN_MS
waitDelay(durationMs) == durationMs + WAIT_MARGIN_MS

\* the stopTimer callback: pause the clone, requestData and stop the recorder
StopTimerFire(i) ==
  /\ Quiet
  /\ sess[i].stopTimer = "pending"
  /\ Commit(i, [Cur(i) EXCEPT
       !.r.stopTimer = "fired",
       !.r.clonePlaying = FALSE,
       !.r.mr = IF @ = "recording" THEN "stopping" ELSE @])

\* mr.onstop (after the data of the recording was delivered to
\* ondataavailable, size bytes of it) or mr.onerror: webmDone settles once
RecorderEvent(i, ev, size) ==
  LET r == sess[i]
  IN  /\ Quiet
      /\ r.clone = "attached"
      /\ IF ev = "stop"
         THEN /\ r.mr = "stopping"
              /\ Commit(i, [Cur(i) EXCEPT !.r.mr = "stopped", !.r.webm = size])
         ELSE /\ r.mr \in {"recording", "stopping"}
              /\ Commit(i, [Cur(i) EXCEPT !.r.mr = "error"])

\* await timeout(durationMs + 160): timers set in one task fire in the order
\* of their delays
RecordWaitFire(i) ==
  LET r == sess[i]
  IN  /\ Quiet
      /\ r.pc = "recording"
      /\ timeout(waitDelay(r.durationMs)) = "resolve"
      /\ r.stopTimer = "pending" => waitDelay(r.durationMs) < stopDelay(r.durationMs)
      /\ IF r.mr # "none"
         THEN Commit(i, [Cur(i) EXCEPT !.r.pc = "awaitWebm"])
         ELSE Commit(i, finalize(Cur(i)))

\* await webmDone
WebmSettle(i) ==
  /\ Quiet
  /\ sess[i].pc = "awaitWebm"
  /\ sess[i].mr \in {"stopped", "error"}
  /\ Commit(i, finalize(Cur(i)))

\* 8) Persist: adapter.exists / vault.createFolder
PersistFolderSettle(i, ok) ==
  /\ Quiet
  /\ sess[i].pc = "persistFolder"
  /\ IF ok
     THEN Commit(i, [Cur(i) EXCEPT !.r.pc = "persistWrite"])
     ELSE Commit(i, exitRestored(Cur(i), "folderFail"))

\* finalBlob.arrayBuffer / adapter.writeBinary, then 9) insert the embed at
\* the cursor of a markdown editor when there is one
PersistWriteSettle(i, ok, hasEditor) ==
  /\ Quiet
  /\ sess[i].pc = "persistWrite"
  /\ IF ~ok
     THEN Commit(i, exitRestored(Cur(i), "writeFail"))
     ELSE IF hasEditor
     THEN Commit(i, exitRestored(
            [Cur(i) EXCEPT !.r.written = TRUE, !.r.embed = "editor"], "saved"))
     ELSE Commit(i, [Cur(i) EXCEPT !.r.written = TRUE, !.r.pc = "clipboard"])

\* await navigator.clipboard.writeText(embed), then auto-resume main player
ClipboardSettle(i, ok) ==
  /\ Quiet
  /\ sess[i].pc = "clipboard"
  /\ IF ok
     THEN Commit(i, exitRestored([Cur(i) EXCEPT !.r.embed = "clipboard"], "saved"))
     ELSE Commit(i, escape(Cur(i), "clipboardThrow"))

\* `await el.play()` of a restore settles; saveArchiveClip returns, through
\* the finally of the worklet's try when it returns from its catch
RestorePlaySettle(i) ==
  /\ Quiet
  /\ sess[i].pc = "restorePlay"
  /\ IF sess[i].outcome = "workletFail"
     THEN Commit(i, [Cur(i) EXCEPT !.r = [finallyRevoke(sess[i]) EXCEPT !.pc = "done"]])
     ELSE Commit(i, [Cur(i) EXCEPT !.r.pc = "done"])

\* ------------------------------------------------ the plugin's other handlers

\* view.seekToSeconds(s) on a view whose player is the archive media element
seekToSeconds(elv, s) == [elv EXCEPT !.currentTime = s, !.ended = FALSE]

\* click on a [mm:ss](#seek-N) link: view.seekToSeconds(N)
SeekLinkClick(t) ==
  /\ Quiet
  /\ archiveMediaEl = "media"
  /\ el' = seekToSeconds(el, t)
  /\ UNCHANGED <<archiveMediaEl, isClipping, sess, call>>

\* view?._archiveMediaEl as the plugin's typing handlers read it: the view
\* keeps its element in the field archiveMediaEl, so the lookup is undefined
underscoreArchiveMediaEl(mounted) == "undefined"

\* workspace "editor-change": pause the archive media (scheduleResume sets
\* the debounced timer)
EditorChange ==
  /\ Quiet
  /\ el' = IF underscoreArchiveMediaEl(archiveMediaEl) = "media"
           THEN [el EXCEPT !.paused = TRUE] ELSE el
  /\ UNCHANGED <<archiveMediaEl, isClipping, sess, call>>

\* the debounced auto-resume timer fires: if (el && el.paused) el.play()
ResumeTimerFire ==
  /\ Quiet
  /\ el' = IF underscoreArchiveMediaEl(archiveMediaEl) = "media" /\ el.paused
           THEN [el EXCEPT !.paused = FALSE, !.ended = FALSE] ELSE el
  /\ UNCHANGED <<archiveMediaEl, isClipping, sess, call>>

\* ---------------------------------------------------------- specification

SrcKinds == {"remote", "blob", "empty"}
CloneEvents == {"loadedmetadata", "seeked", "canplay", "timeupdate", "ended", "error"}
WebmSizes == {0, 2048}

Request ==
  \E i \in Calls, p \in ReqPairs, src \in SrcKinds, durKnown \in BOOLEAN :
    SaveArchiveClip(i, p[1], p[2], src, durKnown)

Returns == \E i \in Calls : Return(i)

\* promises of the platform that settle: network, worklet module, play(),
\* context resume, vault and clipboard
SettlesOf(i) ==
  \E ok \in BOOLEAN :
    \/ FetchSettle(i, ok)
    \/ BlobSettle(i, ok)
    \/ \E graphOk \in BOOLEAN, suspended \in BOOLEAN :
         WorkletSettle(i, ok, graphOk, suspended)
    \/ CtxResumeSettle(i)
    \/ ClonePlaySettle(i, ok)
    \/ WebmSettle(i)
    \/ PersistFolderSettle(i, ok)
    \/ \E hasEditor \in BOOLEAN : PersistWriteSettle(i, ok, hasEditor)
    \/ ClipboardSettle(i, ok)
    \/ RestorePlaySettle(i)

Settles == \E i \in Calls : SettlesOf(i)

\* timers of saveArchiveClip
TimersOf(i) ==
  \E b \in BOOLEAN :
    \/ SeekTimeout(i, b)
    \/ FlowTimeout(i, b)
    \/ StopTimerFire(i)
    \/ RecordWaitFire(i)

Timers == \E i \in Calls : TimersOf(i)

\* events of the clone, the worklet and the recorder: they may never come
MediaEvents ==
  \E i \in Calls :
    \/ \E ev \in CloneEvents, a \in BOOLEAN, w \in BOOLEAN : CloneEvent(i, ev, a, w)
    \/ PcmMessage(i)
    \/ \E ev \in {"stop", "error"}, size \in WebmSizes : RecorderEvent(i, ev, size)

Handlers ==
  \/ \E t \in SeekTargets : SeekLinkClick(t)
  \/ EditorChange
  \/ ResumeTimerFire

Next == Request \/ Returns \/ Settles \/ Timers \/ MediaEvents \/ Handlers

Spec == Init /\ [][Next]_vars

\* the event loop runs every settled promise's continuation and every timer
\* that is due; nothing makes the user act or the media fire an event
FairSpec ==
  /\ Spec
  /\ \A i \in Calls : WF_vars(Return(i)) /\ WF_vars(SettlesOf(i)) /\ WF_vars(TimersOf(i))

\* ------------------------------------- archive files: classify and choose

\* Strings are sequences of one-character strings.
UpperCase == <<"A", "B", "C", "D", "E", "F", "G", "H", "I", "J", "K", "L", "M", "N", "O", "P", "Q", "R", "S", "T", "U", "V", "W", "X", "Y", "Z">>
LowerCase == <<"a", "b", "c", "d", "e", "f", "g", "h", "i", "j", "k", "l", "m", "n", "o", "p", "q", "r", "s", "t", "u", "v", "w", "x", "y", "z">>

\* String.prototype.toLowerCase
toLowerCase(str) ==
  [k \in 1..Len(str) |->
     IF \E n \in 1..Len(UpperCase) : UpperCase[n] = str[k]
     THEN LowerCase[CHOOSE n \in 1..Len(UpperCase) : UpperCase[n] = str[k]]
     ELSE str[k]]

\* String.prototype.includes
includes(str, sub) ==
  \E k \in 1..(Len(str) - Len(sub) + 1) : SubSeq(str, k, k + Len(sub) - 1) = sub

\* the match of /...$/ : str ends with suf
endsWith(str, suf) ==
  /\ Len(suf) <= Len(str)
  /\ SubSeq(str, Len(str) - Len(suf) + 1, Len(str)) = suf

\* const AUDIO_EXT = /\.(mp3|ogg|oga|flac|wav|m4a|aac|aiff)$/i : its alternatives
AUDIO_EXT ==
   {<<"m", "p", "3">>, <<"o", "g", "g">>, <<"o", "g", "a">>,
    <<"f", "l", "a", "c">>, <<"w", "a", "v">>, <<"m", "4", "a">>,
    <<"a", "a", "c">>, <<"a", "i", "f", "f">>}
\* const VIDEO_EXT = /\.(mp4|m4v|webm|ogv|mpeg|mpg|mov|mkv)$/i
VIDEO_EXT ==
   {<<"m", "p", "4">>, <<"m", "4", "v">>, <<"w", "e", "b", "m">>,
    <<"o", "g", "v">>, <<"m", "p", "e", "g">>, <<"m", "p", "g">>,
    <<"m", "o", "v">>, <<"m", "k", "v">>}
\* const TEXT_EXT = /\.(pdf|epub|txt)$/i
TEXT_EXT ==
   {<<"p", "d", "f">>, <<"e", "p", "u", "b">>, <<"t", "x", "t">>}
\* the extensions of score's /\.(mp3|mp4|m4a|m4v|webm|ogv|ogg|flac|wav)$/i
STANDARD_EXT ==
   {<<"m", "p", "3">>, <<"m", "p", "4">>, <<"m", "4", "a">>,
    <<"m", "4", "v">>, <<"w", "e", "b", "m">>, <<"o", "g", "v">>,
    <<"o", "g", "g">>, <<"f", "l", "a", "c">>, <<"w", "a", "v">>}

\* RegExp.prototype.test for /\.(alt1|alt2|...)$/i
test(alternatives, str) ==
  \E ext \in alternatives : endsWith(toLowerCase(str), <<".">> \o ext)

\* the keywords guessKindByFormat looks for, by kind
AUDIO_FORMATS ==
   {<<"m", "p", "3">>, <<"o", "g", "g">>, <<"v", "o", "r", "b", "i", "s">>,
    <<"f", "l", "a", "c">>, <<"w", "a", "v">>, <<"m", "4", "a">>,
    <<"a", "a", "c">>}
VIDEO_FORMATS ==
   {<<"m", "p", "e", "g", "4">>, <<"h", ".", "2", "6", "4">>,
    <<"m", "p", "4">>, <<"w", "e", "b", "m">>, <<"o", "g", "v">>,
    <<"q", "u", "i", "c", "k", "t", "i", "m", "e">>, <<"x", "v", "i", "d">>}
TEXT_FORMATS ==
   {<<"p", "d", "f">>, <<"e", "p", "u", "b">>, <<"t", "e", "x", "t">>}

\* function guessKindByFormat(fmt): an absent format and "" are both falsy
guessKindByFormat(fmt) ==
  IF fmt = <<>> THEN "null"
  ELSE LET f == toLowerCase(fmt)
       IN  IF \E w \in AUDIO_FORMATS : includes(f, w) THEN "audio"
           ELSE IF \E w \in VIDEO_FORMATS : includes(f, w) THEN "video"
           ELSE IF \E w \in TEXT_FORMATS : includes(f, w) THEN "text"
           ELSE "null"

classifyFileKind_formatFirst(file) ==
  LET byFmt == guessKindByFormat(file.format)
  IN  IF byFmt # "null" THEN byFmt
      ELSE IF test(AUDIO_EXT, file.name) THEN "audio"
      ELSE IF test(VIDEO_EXT, file.name) THEN "video"
      ELSE IF test(TEXT_EXT, file.name) THEN "text"
      ELSE "other"
\* export function classifyFileKind(file)
classifyFileKind(file) ==
  LET byExt == IF test(AUDIO_EXT, file.name) THEN "audio"
               ELSE IF test(VIDEO_EXT, file.name) THEN "video"
               ELSE IF test(TEXT_EXT, file.name) THEN "text"
               ELSE "null"
      byFmt == guessKindByFormat(file.format)
  IN  IF byExt # "null" THEN byExt
      ELSE IF byFmt # "null" THEN byFmt
      ELSE "other"

\* the lastIndex of the three extension patterns when the module is loaded
FreshLastIndex == [audio |-> 0, video |-> 0, text |-> 0]

lastIndexAfter_global(str, matched, lastIndex) ==
  IF matched THEN Len(str) ELSE 0

\* the lastIndex a pattern carries to its next use: the patterns have the
\* flag i only, and a pattern without g or y never writes its lastIndex
lastIndexAfter(str, matched, lastIndex) == lastIndex

\* pattern.test(str) of a pattern whose lastIndex is the one given: the
\* match, a dot and an extension at the end of str, starts at or after it
testFrom(alternatives, str, lastIndex) ==
  \E ext \in alternatives :
    /\ endsWith(toLowerCase(str), <<".">> \o ext)
    /\ Len(str) - Len(ext) - 1 >= lastIndex

\* classifyFileKind(file) called when the patterns carry lastIndex li: the
\* kind returned and the lastIndex they carry afterwards; a pattern after
\* the first that matched is not used
classifyFileKindFrom(file, li) ==
  LET a == testFrom(AUDIO_EXT, file.name, li.audio)
      v == testFrom(VIDEO_EXT, file.name, li.video)
      x == testFrom(TEXT_EXT, file.name, li.text)
      byExt == IF a THEN "audio" ELSE IF v THEN "video"
               ELSE IF x THEN "text" ELSE "null"
      byFmt == guessKindByFormat(file.format)
  IN  [ret |-> IF byExt # "null" THEN byExt
               ELSE IF byFmt # "null" THEN byFmt
               ELSE "other",
       lastIndex |->
         [audio |-> lastIndexAfter(file.name, a, li.audio),
          video |-> IF a THEN li.video
                    ELSE lastIndexAfter(file.name, v, li.video),
          text  |-> IF a \/ v THEN li.text
                    ELSE lastIndexAfter(file.name, x, li.text)]]

\* bytes in a megabyte (1024 * 1024) and the cap of score's size term
MEGABYTE == 1048576
SIZE_CAP == 15

kindScore_textAsOther(kind) ==
  IF kind = "video" THEN 30 ELSE IF kind = "audio" THEN 20 ELSE -20
\* Kind priority: video +30, audio +20, text -10, other -20
kindScore(kind) ==
  IF kind = "video" THEN 30
  ELSE IF kind = "audio" THEN 20
  ELSE IF kind = "text" THEN -10
  ELSE -20

\* Prefer original over derivative
sourceScore(file) ==
  IF toLowerCase(file.source) = <<"o", "r", "i", "g", "i", "n", "a", "l">> THEN 5 ELSE 0

sizeScore_uncapped(file) ==
  IF file.hasSize /\ file.size > 0 THEN file.size \div MEGABYTE ELSE 0

\* Prefer larger sizes within reason
sizeScore(file) ==
  LET sz == IF file.hasSize THEN file.size ELSE 0
  IN  IF sz > 0 THEN Min(sz \div MEGABYTE, SIZE_CAP) ELSE 0

\* Prefer standard playable extensions
extScore(file) == IF test(STANDARD_EXT, file.name) THEN 5 ELSE 0

\* function score(file)
score(file) ==
  kindScore(classifyFileKind(file)) + sourceScore(file) + sizeScore(file)
    + extScore(file)

\* the four lists splitByKind starts with
NoFiles == [audio |-> <<>>, video |-> <<>>, text |-> <<>>, other |-> <<>>]

pushByKind_noElse(lists, f) ==
  LET k == classifyFileKind(f)
  IN  IF k = "audio" THEN [lists EXCEPT !.audio = Append(@, f)]
      ELSE IF k = "video" THEN [lists EXCEPT !.video = Append(@, f)]
      ELSE IF k = "text" THEN [lists EXCEPT !.text = Append(@, f)]
      ELSE lists
\* the body of splitByKind's loop: push f to the list of its kind
pushByKind(lists, f) ==
  LET k == classifyFileKind(f)
  IN  IF k = "audio" THEN [lists EXCEPT !.audio = Append(@, f)]
      ELSE IF k = "video" THEN [lists EXCEPT !.video = Append(@, f)]
      ELSE IF k = "text" THEN [lists EXCEPT !.text = Append(@, f)]
      ELSE [lists EXCEPT !.other = Append(@, f)]

\* for (const f of files) { ... }, from the lists built so far
RECURSIVE splitLoop(_, _)
splitLoop(files, lists) ==
  IF files = <<>> THEN lists
  ELSE splitLoop(Tail(files), pushByKind(lists, Head(files)))

\* export function splitByKind(files)
splitByKind(files) == splitLoop(files, NoFiles)

isPlayable_all(f) == TRUE
\* f => { const k = classifyFileKind(f); return k === "audio" || k === "video"; }
isPlayable(f) == classifyFileKind(f) \in {"audio", "video"}

compare_ascending(a, b) == score(a) - score(b)
\* (a, b) => score(b) - score(a)
compare(a, b) == score(b) - score(a)

\* Array.prototype.sort is stable: x goes behind every element that the
\* comparator does not put after it
insertSorted(sorted, x) ==
  LET keep == {k \in 1..Len(sorted) : compare(sorted[k], x) <= 0}
      n    == IF keep = {} THEN 0 ELSE CHOOSE k \in keep : \A j \in keep : j <= k
  IN  SubSeq(sorted, 1, n) \o <<x>> \o SubSeq(sorted, n + 1, Len(sorted))

\* playable.sort(...): the elements in array order, inserted one by one
RECURSIVE sort(_, _)
sort(array, sorted) ==
  IF array = <<>> THEN sorted
  ELSE sort(Tail(array), insertSorted(sorted, Head(array)))

\* export function pickBestPlayableFile(files): ret is <<>> for null and
\* <<file>> otherwise; files is the argument array as the call leaves it
pickBestPlayableFile(files) ==
  LET playable == SelectSeq(files, isPlayable)
  IN  IF Len(files) = 0 THEN [ret |-> <<>>, files |-> files]
      ELSE IF Len(playable) = 0 THEN [ret |-> <<>>, files |-> files]
      ELSE [ret |-> <<sort(playable, <<>>)[1]>>, files |-> files]

\* ------------------------------------------------ the archive resolver

Digits == <<"0", "1", "2", "3", "4", "5", "6", "7", "8", "9">>

IsDigit(c) == \E k \in 1..Len(Digits) : Digits[k] = c

digitValue(c) == (CHOOSE k \in 1..Len(Digits) : Digits[k] = c) - 1

RECURSIVE decimalValue(_)
decimalValue(str) ==
  IF str = <<>> THEN 0
  ELSE decimalValue(SubSeq(str, 1, Len(str) - 1)) * 10
         + digitValue(str[Len(str)])

RECURSIVE trim(_)
trim(str) ==
  IF str = <<>> THEN str
  ELSE IF Head(str) = " " THEN trim(Tail(str))
  ELSE IF str[Len(str)] = " " THEN trim(SubSeq(str, 1, Len(str) - 1))
  ELSE str

\* Number(str) of a string of decimal digits, spaces, colons and letters
\* that start no numeric literal: <<n>> for the number n, <<>> for NaN; the
\* string that is empty after trimming converts to 0
Number(str) ==
  LET s == trim(str)
  IN  IF s = <<>> THEN <<0>>
      ELSE IF \A k \in 1..Len(s) : IsDigit(s[k]) THEN <<decimalValue(s)>>
      ELSE <<>>

\* str.split(sep) with a separator of one character
RECURSIVE split(_, _)
split(str, sep) ==
  IF \A k \in 1..Len(str) : str[k] # sep THEN <<str>>
  ELSE LET k == CHOOSE k \in 1..Len(str) :
                  str[k] = sep /\ \A j \in 1..(k - 1) : str[j] # sep
       IN  <<SubSeq(str, 1, k - 1)>> \o split(SubSeq(str, k + 1, Len(str)), sep)

\* function parseHMS(s): s is <<>> when absent or the empty string
parseHMS(s) ==
  IF s = <<>> THEN 0
  ELSE LET parts == [k \in 1..Len(split(s, ":")) |-> Number(split(s, ":")[k])]
       IN  IF \E k \in 1..Len(parts) : parts[k] = <<>> THEN 0
           ELSE IF Len(parts) = 3
           THEN parts[1][1] * 3600 + parts[2][1] * 60 + parts[3][1]
           ELSE IF Len(parts) = 2 THEN parts[1][1] * 60 + parts[2][1]
           ELSE IF Len(parts) = 1 THEN parts[1][1]
           ELSE 0

\* n.toString() of a non-negative integer
RECURSIVE toString(_)
toString(n) ==
  IF n < 10 THEN <<Digits[n + 1]>>
  ELSE toString(n \div 10) \o <<Digits[(n % 10) + 1]>>

\* str.padStart(targetLength, pad) with a pad of one character
RECURSIVE padStart(_, _, _)
padStart(str, targetLength, pad) ==
  IF Len(str) >= targetLength THEN str
  ELSE padStart(<<pad>> \o str, targetLength, pad)

fmtHMS_hourless(sec) ==
  toString((Max(0, sec) % 3600) \div 60) \o <<":">>
    \o padStart(toString(Max(0, sec) % 60), 2, "0")

\* function fmtHMS(sec) of a whole number of seconds
fmtHMS(sec) ==
  LET s  == Max(0, sec)
      h  == s \div 3600
      m  == (s % 3600) \div 60
      r  == s % 60
      mm == padStart(toString(m), 2, "0")
      ss == padStart(toString(r), 2, "0")
  IN  IF h > 0 THEN toString(h) \o <<":">> \o mm \o <<":">> \o ss
      ELSE toString(m) \o <<":">> \o ss

\* str has the characters of lit, whatever their case, from position p on
matchesAt(str, p, lit) ==
  /\ p + Len(lit) - 1 <= Len(str)
  /\ toLowerCase(SubSeq(str, p, p + Len(lit) - 1)) = lit

\* /^https?:\/\//i.test(str)
isHttpUrl(str) ==
  \/ matchesAt(str, 1, <<"h", "t", "t", "p", ":", "/", "/">>)
  \/ matchesAt(str, 1, <<"h", "t", "t", "p", "s", ":", "/", "/">>)

\* the characters that end an identifier: the class [^/?#] excludes them
Delimiters_noSlash == {"?", "#"}
Delimiters == {"/", "?", "#"}

\* the literal part of /archive\.org\/<word>\/([^/?#]+)/i
literalOf(word) ==
  <<"a", "r", "c", "h", "i", "v", "e", ".", "o", "r", "g", "/">> \o word \o <<"/">>

\* /archive\.org\/<word>\/([^/?#]+)/i.exec(str): <<>> when there is no
\* match, else <<m[1]>>, the longest run of characters other than / ? #
\* after the leftmost occurrence of the literal part that has one
exec(word, str) ==
  LET lit == literalOf(word)
      At  == {q \in 1..Len(str) :
                /\ matchesAt(str, q, lit)
                /\ q + Len(lit) <= Len(str)
                /\ str[q + Len(lit)] \notin Delimiters}
  IN  IF At = {} THEN <<>>
      ELSE LET q     == CHOOSE q \in At : \A y \in At : q <= y
               first == q + Len(lit)
               last  == CHOOSE z \in first..Len(str) :
                          /\ \A k \in first..z : str[k] \notin Delimiters
                          /\ z = Len(str) \/ str[z + 1] \in Delimiters
           IN  <<SubSeq(str, first, last)>>

PATTERNS_embedFirst ==
  <<<<"e", "m", "b", "e", "d">>, <<"d", "e", "t", "a", "i", "l", "s">>, <<"d", "o", "w", "n", "l", "o", "a", "d">>>>

\* the words of the three patterns, in the order they are tried
PATTERNS ==
  <<<<"d", "e", "t", "a", "i", "l", "s">>, <<"e", "m", "b", "e", "d">>, <<"d", "o", "w", "n", "l", "o", "a", "d">>>>

\* export function extractIdentifierFromUrl(urlOrId)
extractIdentifierFromUrl(urlOrId) ==
  IF ~isHttpUrl(urlOrId) THEN urlOrId
  ELSE LET Hits == {k \in 1..Len(PATTERNS) : exec(PATTERNS[k], urlOrId) # <<>>}
       IN  IF Hits = {} THEN urlOrId
           ELSE exec(PATTERNS[CHOOSE k \in Hits : \A j \in Hits : k <= j],
                     urlOrId)[1]

\* the escape of a character that encodeURIComponent does not leave as it
\* is; letters, digits and - _ . ! ~ * ' ( ) are left
encodeChar(c) ==
  CASE c = " " -> <<"%", "2", "0">>
    [] c = "#" -> <<"%", "2", "3">>
    [] c = "%" -> <<"%", "2", "5">>
    [] c = "&" -> <<"%", "2", "6">>
    [] c = "/" -> <<"%", "2", "F">>
    [] c = ":" -> <<"%", "3", "A">>
    [] c = "=" -> <<"%", "3", "D">>
    [] c = "?" -> <<"%", "3", "F">>
    [] OTHER -> <<c>>

RECURSIVE encodeURIComponent(_)
encodeURIComponent(str) ==
  IF str = <<>> THEN <<>>
  ELSE encodeChar(Head(str)) \o encodeURIComponent(Tail(str))

\* function buildDownloadUrl(identifier, fileName)
buildDownloadUrl(identifier, fileName) ==
  <<"h", "t", "t", "p", "s", ":", "/", "/", "a", "r", "c", "h", "i", "v", "e", ".", "o", "r", "g", "/", "d", "o", "w", "n", "l", "o", "a", "d", "/">>
    \o encodeURIComponent(identifier) \o <<"/">> \o encodeURIComponent(fileName)

\* a start position passed to the resolver: <<>> when none is passed,
\* <<"number", t>> for t thousandths of a second, <<"Infinity">>, <<"NaN">>
isTruthy(startSeconds) ==
  /\ startSeconds # <<>>
  /\ startSeconds[1] # "NaN"
  /\ startSeconds[1] = "number" => startSeconds[2] # 0

isFinite(startSeconds) == startSeconds # <<>> /\ startSeconds[1] = "number"

\* Math.floor of a number given in thousandths
floor(thousandths) == thousandths \div 1000

\* function buildEmbedUrl(identifier, startSeconds), for an identifier of
\* letters, digits and - _ . that the URL parser leaves as it is
buildEmbedUrl(identifier, startSeconds) ==
  <<"h", "t", "t", "p", "s", ":", "/", "/", "a", "r", "c", "h", "i", "v", "e", ".", "o", "r", "g", "/", "e", "m", "b", "e", "d", "/">> \o identifier
    \o IF isTruthy(startSeconds) /\ isFinite(startSeconds)
       THEN <<"?", "s", "t", "a", "r", "t", "=">> \o toString(floor(startSeconds[2]))
       ELSE <<>>

\* a file of a metadata response as it arrives: size is <<>> when the file
\* has none, <<"number", n>> or <<"string", chars>>; format, source and
\* length are <<>> when the file has none
RawFile(name, format, size, source, length) ==
  [name |-> name, format |-> format, size |-> size, source |-> source,
   length |-> length]

normalizeSize_keep(size) == size

\* the size of a file after the loop that normalizes sizes: a string that
\* Number converts is replaced by the number
normalizeSize(size) ==
  IF size # <<>> /\ size[1] = "string" /\ Number(size[2]) # <<>>
  THEN <<"number", Number(size[2])[1]>>
  ELSE size

\* the file as the chooser reads it: hasSize is typeof size === "number"
normalizedFile(f) ==
  LET size == normalizeSize(f.size)
      isNumber == size # <<>> /\ size[1] = "number"
  IN  [name |-> f.name, format |-> f.format, hasSize |-> isNumber,
       size |-> IF isNumber THEN size[2] ELSE 0, source |-> f.source,
       length |-> f.length,
       sizeText |-> IF size # <<>> /\ size[1] = "string" THEN size[2] ELSE <<>>]

\* a parsed response body: type is "invalid" for a body that is no JSON,
\* else the type of the JSON value; files is <<>> without a files member,
\* <<"string">> for one that is no array, <<"array", list>> for a list;
\* metadata is <<>> without a metadata map, else <<title>>
Body(type, files, metadata) ==
  [type |-> type, files |-> files, metadata |-> metadata]

isRecord(x) == x.type \in {"object", "array"}

isArchiveApiResponse(x) ==
  IF ~isRecord(x) THEN FALSE
  ELSE IF x.files = <<>> \/ x.files[1] # "array" THEN FALSE
  ELSE TRUE

isOk(status) == status \in 200..299

NoError == [type |-> "none", status |-> 0, identifier |-> <<>>]

\* new Error(message): the kind of message, and the status and identifier
\* written into it
Error(type, status, identifier) ==
  [type |-> type, status |-> status, identifier |-> identifier]

\* fetchArchiveMetadata from the settled fetch on: the error thrown for a
\* response that is not ok
statusError(status, identifier) ==
  IF status = 404 THEN Error("item not found", 0, identifier)
  ELSE Error("status", status, identifier)

\* fetchArchiveMetadata from the parsed body on: { dir, files, metadata }
metadataOf(data) ==
  [dir |-> <<>>,
   metadata |-> IF data.metadata # <<>> THEN [title |-> data.metadata[1]]
                ELSE [title |-> <<>>],
   files |-> [k \in 1..Len(data.files[2]) |-> normalizedFile(data.files[2][k])]]

ordinal_fromZero(i) == i - 1

\* n: i + 1 of the forEach index i = 0, 1, ...
ordinal(i) == i + 1

\* the track pushed for the file f at index i (from 0) of the audio list
trackOf(f, i, identifier) ==
  LET rawLen  == f.length
      seconds == parseHMS(rawLen)
  IN  [n |-> ordinal(i), name |-> f.name,
       length |-> IF rawLen # <<>> THEN rawLen
                  ELSE IF seconds # 0 THEN fmtHMS(seconds) ELSE <<>>,
       seconds |-> seconds,
       url |-> buildDownloadUrl(identifier, f.name)]

RECURSIVE totalSeconds(_)
totalSeconds(tracks) ==
  IF tracks = <<>> THEN 0
  ELSE tracks[1].seconds + totalSeconds(Tail(tracks))

BEST_VIDEO_EXT_classifier == VIDEO_EXT

\* the extensions of /\.(mp4|m4v|webm|ogv|mov|mkv)$/i
BEST_VIDEO_EXT ==
  {<<"m", "p", "4">>, <<"m", "4", "v">>, <<"w", "e", "b", "m">>, <<"o", "g", "v">>, <<"m", "o", "v">>, <<"m", "k", "v">>}

\* resolveArchiveMedia from the metadata on: the resolution returned;
\* bestFileUrl and bestFileKind are <<>> when the resolution has none
resolutionOf(identifier, meta, startSeconds) ==
  LET lists  == splitByKind(meta.files)
      best   == pickBestPlayableFile(meta.files).ret
      tracks == [k \in 1..Len(lists.audio) |->
                   trackOf(lists.audio[k], k - 1, identifier)]
      info   == [title |-> meta.metadata.title,
                 track_count |-> Len(tracks),
                 duration_total |-> fmtHMS(totalSeconds(tracks)),
                 tracks |-> tracks]
  IN  [provider |-> "archive", identifier |-> identifier,
       embedUrl |-> buildEmbedUrl(identifier, startSeconds),
       audioFiles |-> lists.audio, videoFiles |-> lists.video,
       textFiles |-> lists.text, otherFiles |-> lists.other,
       info |-> info,
       bestFileUrl |-> IF best # <<>>
                       THEN <<buildDownloadUrl(identifier, best[1].name)>>
                       ELSE <<>>,
       bestFileKind |-> IF best # <<>>
                        THEN <<IF test(BEST_VIDEO_EXT, best[1].name)
                               THEN "video" ELSE "audio">>
                        ELSE <<>>]

\* ------------------------------------------- the pure functions, applied

\* positions on the media timeline, in seconds, that a request can name
ClipSecs == {0, 1, 9, 10, 11, 69, 70, 71, 80, 200}

\* the capture engine while a pure function is applied: nothing mounted
CaptureIdle ==
  /\ archiveMediaEl = "none"
  /\ el = [paused |-> TRUE, ended |-> FALSE, currentTime |-> 0]
  /\ isClipping = FALSE
  /\ sess = [i \in Calls |-> NoSess]

NormalizeCalls ==
  {[fn |-> "normalizeWindow", done |-> FALSE, startSec |-> a, endSec |-> b,
    ret |-> [s |-> 0, e |-> 0, durationMs |-> 0]] : a \in ClipSecs, b \in ClipSecs}

\* const s = ...; let e = ...; const durationMs = ...
Normalize ==
  /\ call.fn = "normalizeWindow" /\ ~call.done
  /\ call' = [call EXCEPT !.done = TRUE,
                          !.ret = normalizeWindow(call.startSec, call.endSec)]
  /\ UNCHANGED captureVars

\* what a caller of saveArchiveClip(startSec, endSec) can pass: seconds before
\* the start of the timeline, on it, equal and more than the window apart
RequestedSecs == {-70, -5, -3, 0, 3, 5, 70}

RequestCalls ==
  {[fn |-> "saveArchiveClip", done |-> FALSE, startSec |-> a, endSec |-> b,
    ret |-> [s |-> 0, e |-> 0, durationMs |-> 0]] :
     a \in RequestedSecs, b \in RequestedSecs}

\* 2) Normalize window, of a request of saveArchiveClip
NormalizeRequested ==
  /\ call.fn = "saveArchiveClip" /\ ~call.done
  /\ call' = [call EXCEPT
       !.done = TRUE, !.ret = normalizeWindow(call.startSec, call.endSec)]
  /\ UNCHANGED captureVars

\* file names of an item's metadata
FileNames ==
   {<<"a", ".", "m", "p", "3">>, <<"A", ".", "M", "P", "3">>,
    <<"d", ".", "a", "i", "f", "f">>, <<"b", ".", "m", "p", "4">>,
    <<"c", ".", "M", "k", "v">>, <<"e", ".", "p", "d", "f">>,
    <<"g", ".", "m", "p", "3", ".", "t", "x", "t">>,
    <<"f", ".", "x", "m", "l">>, <<"m", "p", "3">>,
    <<"x", ".", "m", "p", "3", "x">>, <<".", "o", "g", "v">>}
\* format strings of an item's metadata; <<>> when the file has none
FileFormats ==
  {<<>>} \cup
   {<<"V", "B", "R", " ", "M", "P", "3">>,
    <<"O", "g", "g", " ", "V", "o", "r", "b", "i", "s">>,
    <<"M", "P", "E", "G", "4">>, <<"h", ".", "2", "6", "4">>,
    <<"T", "e", "x", "t", " ", "P", "D", "F">>,
    <<"M", "e", "t", "a", "d", "a", "t", "a">>,
    <<"J", "P", "E", "G", " ", "T", "h", "u", "m", "b">>}

\* an ArchiveFile: size in bytes when hasSize (typeof size === "number")
ArchiveFile(name, format, hasSize, size, source) ==
  [name |-> name, format |-> format, hasSize |-> hasSize, size |-> size,
   source |-> source]

ClassifyCalls ==
  {[fn |-> "classifyFileKind", done |-> FALSE,
    file |-> ArchiveFile(n, f, FALSE, 0, <<>>), ret |-> "none",
    lastIndex |-> FreshLastIndex, again |-> "none"] :
     n \in FileNames, f \in FileFormats}

\* classifyFileKind(file)
Classify ==
  /\ call.fn = "classifyFileKind" /\ ~call.done
  /\ call' = [call EXCEPT
       !.done = TRUE, !.ret = classifyFileKind(call.file),
       !.lastIndex = classifyFileKindFrom(call.file, call.lastIndex).lastIndex]
  /\ UNCHANGED captureVars

\* the same file classified a second time, by the same three patterns
ClassifyAgain ==
  /\ call.fn = "classifyFileKind" /\ call.done /\ call.again = "none"
  /\ call' = [call EXCEPT
       !.again = classifyFileKindFrom(call.file, call.lastIndex).ret,
       !.lastIndex = classifyFileKindFrom(call.file, call.lastIndex).lastIndex]
  /\ UNCHANGED captureVars

\* sizes in bytes around the megabyte steps and the cap of the size term
FileSizes ==
  {0, MEGABYTE - 1, MEGABYTE, 10 * MEGABYTE, SIZE_CAP * MEGABYTE,
   (SIZE_CAP + 1) * MEGABYTE}

FileSources == {<<>>, <<"O", "r", "i", "g", "i", "n", "a", "l">>, <<"d", "e", "r", "i", "v", "a", "t", "i", "v", "e">>}

\* files of every kind, with and without a standard extension
ScoredNames ==
  {<<"a", ".", "m", "p", "3">>, <<"d", ".", "a", "i", "f", "f">>, <<"b", ".", "m", "p", "4">>,
   <<"c", ".", "M", "k", "v">>, <<"e", ".", "p", "d", "f">>, <<"f", ".", "x", "m", "l">>}

ScoredFiles ==
  {ArchiveFile(n, <<>>, h, z, src) :
     n \in ScoredNames, h \in BOOLEAN, z \in FileSizes, src \in FileSources}

\* only files with a numeric size carry one
SizedFiles == {f \in ScoredFiles : ~f.hasSize => f.size = 0}

ScoreCalls ==
  {[fn |-> "score", done |-> FALSE, a |-> x, b |-> y, ret |-> <<0, 0>>] :
     x \in SizedFiles, y \in SizedFiles}

\* (a, b) => score(b) - score(a): the scores of two files
Score ==
  /\ call.fn = "score" /\ ~call.done
  /\ call' = [call EXCEPT !.done = TRUE,
                          !.ret = <<score(call.a), score(call.b)>>]
  /\ UNCHANGED captureVars

\* length of the file lists given to splitByKind and pickBestPlayableFile
MaxFiles == 3

\* files of an item: two that tie at the top of the playable ones, a larger
\* video, an audio known by its format only, a text and an unclassified one
ListedFiles ==
  {ArchiveFile(<<"a", ".", "m", "p", "3">>, <<>>, FALSE, 0, <<"O", "r", "i", "g", "i", "n", "a", "l">>),
   ArchiveFile(<<"c", ".", "M", "k", "v">>, <<>>, FALSE, 0, <<>>),
   ArchiveFile(<<"b", ".", "m", "p", "4">>, <<"M", "P", "E", "G", "4">>, TRUE, 16 * MEGABYTE,
               <<"d", "e", "r", "i", "v", "a", "t", "i", "v", "e">>),
   ArchiveFile(<<"f", ".", "x", "m", "l">>, <<"V", "B", "R", " ", "M", "P", "3">>, TRUE, 11 * MEGABYTE,
               <<"d", "e", "r", "i", "v", "a", "t", "i", "v", "e">>),
   ArchiveFile(<<"e", ".", "p", "d", "f">>, <<"T", "e", "x", "t", " ", "P", "D", "F">>, TRUE, MEGABYTE, <<"O", "r", "i", "g", "i", "n", "a", "l">>),
   ArchiveFile(<<"f", ".", "x", "m", "l">>, <<"M", "e", "t", "a", "d", "a", "t", "a">>, FALSE, 0, <<"O", "r", "i", "g", "i", "n", "a", "l">>)}

FileLists == UNION {[1..n -> ListedFiles] : n \in 0..MaxFiles}

SplitCalls ==
  {[fn |-> "splitByKind", done |-> FALSE, files |-> l, ret |-> NoFiles] :
     l \in FileLists}

\* splitByKind(files)
Split ==
  /\ call.fn = "splitByKind" /\ ~call.done
  /\ call' = [call EXCEPT !.done = TRUE, !.ret = splitByKind(call.files)]
  /\ UNCHANGED captureVars

\* arg: the list as the caller built it; files: the array the call works on
PickCalls ==
  {[fn |-> "pickBestPlayableFile", done |-> FALSE, arg |-> l, files |-> l,
    ret |-> <<>>] : l \in FileLists}

\* pickBestPlayableFile(files)
PickBest ==
  /\ call.fn = "pickBestPlayableFile" /\ ~call.done
  /\ call' = [call EXCEPT !.done = TRUE,
                          !.ret = pickBestPlayableFile(call.files).ret,
                          !.files = pickBestPlayableFile(call.files).files]
  /\ UNCHANGED captureVars

\* length strings of an item's files: the written forms h:m:s, m:s and s,
\* and every string of at most MaxLen characters of a small alphabet
MaxLen == 3

HMSAlphabet == {"0", "7", ":", "a"}

HMSStrings ==
  {<<"1", ":", "0", "2", ":", "0", "3">>,
   <<"0", "2", ":", "0", "3">>,
   <<"b", "a", "d">>,
   <<"1", ":", "2", ":", "3", ":", "4">>,
   <<"1", ":", ":", "3">>,
   <<" ", "7">>,
   <<"5", "9", ":", "5", "9">>}
    \cup UNION {[1..n -> HMSAlphabet] : n \in 0..MaxLen}

ParseCalls ==
  {[fn |-> "parseHMS", done |-> FALSE, s |-> s, ret |-> 0] : s \in HMSStrings}

\* parseHMS(s)
ParseHMS ==
  /\ call.fn = "parseHMS" /\ ~call.done
  /\ call' = [call EXCEPT !.done = TRUE, !.ret = parseHMS(call.s)]
  /\ UNCHANGED captureVars

MaxSecs == 130

\* whole seconds: the first MaxSecs, and those around the minute and hour steps
FmtSecs ==
  (0..MaxSecs) \cup {599, 600, 3599, 3600, 3601, 3723, 36000, 86399, 86400,
                     360000}

FmtCalls ==
  {[fn |-> "fmtHMS", done |-> FALSE, sec |-> n, ret |-> <<>>,
    again |-> FALSE, parsed |-> 0] : n \in FmtSecs}

\* fmtHMS(sec)
FmtHMS ==
  /\ call.fn = "fmtHMS" /\ ~call.done
  /\ call' = [call EXCEPT !.done = TRUE, !.ret = fmtHMS(call.sec)]
  /\ UNCHANGED captureVars

\* parseHMS(text), text the string fmtHMS returned
ParseFormatted ==
  /\ call.fn = "fmtHMS" /\ call.done /\ ~call.again
  /\ call' = [call EXCEPT !.again = TRUE, !.parsed = parseHMS(call.ret)]
  /\ UNCHANGED captureVars

\* what the caller has: identifiers, strings that are no http(s) URL, item
\* URLs of the three forms and URLs of none of them
UrlOrIds ==
  {<<"f", "o", "o">>,
   <<"F", "o", "o", "_", "B", "a", "r", "-", "1", ".", "2">>,
   <<"a", "r", "c", "h", "i", "v", "e", ".", "o", "r", "g", "/", "d", "e", "t", "a", "i", "l", "s", "/", "f", "o", "o">>,
   <<"f", "t", "p", ":", "/", "/", "a", "r", "c", "h", "i", "v", "e", ".", "o", "r", "g", "/", "d", "e", "t", "a", "i", "l", "s", "/", "f", "o", "o">>,
   <<"h", "t", "t", "p", "s", ":", "/", "/", "a", "r", "c", "h", "i", "v", "e", ".", "o", "r", "g", "/", "d", "e", "t", "a", "i", "l", "s", "/", "f", "o", "o">>,
   <<"h", "t", "t", "p", ":", "/", "/", "a", "r", "c", "h", "i", "v", "e", ".", "o", "r", "g", "/", "d", "e", "t", "a", "i", "l", "s", "/", "f", "o", "o", "/">>,
   <<"H", "T", "T", "P", "S", ":", "/", "/", "A", "R", "C", "H", "I", "V", "E", ".", "O", "R", "G", "/", "D", "E", "T", "A", "I", "L", "S", "/", "F", "o", "o", "?", "x", "=", "1">>,
   <<"h", "t", "t", "p", "s", ":", "/", "/", "a", "r", "c", "h", "i", "v", "e", ".", "o", "r", "g", "/", "e", "m", "b", "e", "d", "/", "b", "a", "r", "#", "t", "=", "3">>,
   <<"h", "t", "t", "p", "s", ":", "/", "/", "a", "r", "c", "h", "i", "v", "e", ".", "o", "r", "g", "/", "d", "o", "w", "n", "l", "o", "a", "d", "/", "b", "a", "z", "/", "a", ".", "m", "p", "3">>,
   <<"h", "t", "t", "p", "s", ":", "/", "/", "w", "e", "b", ".", "a", "r", "c", "h", "i", "v", "e", ".", "o", "r", "g", "/", "d", "e", "t", "a", "i", "l", "s", "/", "f", "o", "o">>,
   <<"h", "t", "t", "p", "s", ":", "/", "/", "a", "r", "c", "h", "i", "v", "e", ".", "o", "r", "g", "/">>,
   <<"h", "t", "t", "p", "s", ":", "/", "/", "e", "x", "a", "m", "p", "l", "e", ".", "c", "o", "m", "/", "d", "e", "t", "a", "i", "l", "s", "/", "f", "o", "o">>,
   <<"h", "t", "t", "p", "s", ":", "/", "/", "a", "r", "c", "h", "i", "v", "e", ".", "o", "r", "g", "/", "d", "e", "t", "a", "i", "l", "s", "/">>,
   <<"h", "t", "t", "p", "s", ":", "/", "/", "a", "r", "c", "h", "i", "v", "e", ".", "o", "r", "g", "/", "d", "e", "t", "a", "i", "l", "s", "/", "/", "x">>,
   <<"h", "t", "t", "p", "s", ":", "/", "/", "a", "r", "c", "h", "i", "v", "e", ".", "o", "r", "g", "/", "d", "e", "t", "a", "i", "l", "s", "/", "?", "q">>,
   <<"h", "t", "t", "p", "s", ":", "/", "/", "a", "r", "c", "h", "i", "v", "e", ".", "o", "r", "g", "/", "e", "m", "b", "e", "d", "/", "b", "a", "r", "?", "u", "=", "a", "r", "c", "h", "i", "v", "e", ".", "o", "r", "g", "/", "d", "e", "t", "a", "i", "l", "s", "/", "f", "o", "o">>,
   <<"h", "t", "t", "p", "s", ":", "/", "/", "a", "r", "c", "h", "i", "v", "e", ".", "o", "r", "g", "/", "d", "o", "w", "n", "l", "o", "a", "d", "/", "b", "a", "z", "/", "a", "r", "c", "h", "i", "v", "e", ".", "o", "r", "g", "/", "e", "m", "b", "e", "d", "/", "b", "a", "r">>,
   <<"h", "t", "t", "p", "s", ":", "/", "/", "a", "r", "c", "h", "i", "v", "e", ".", "o", "r", "g", "/", "d", "e", "t", "a", "i", "l", "s", "/", "/", "a", "r", "c", "h", "i", "v", "e", ".", "o", "r", "g", "/", "d", "e", "t", "a", "i", "l", "s", "/", "q", "u", "x", "/">>,
   <<"h", "t", "t", "p", "s", ":", "/", "/", "a", "r", "c", "h", "i", "v", "e", "X", "o", "r", "g", "/", "d", "e", "t", "a", "i", "l", "s", "/", "f", "o", "o">>,
   <<"h", "t", "t", "p", ":", "/", "/">>,
   <<"h", "t", "t", "p", "s", ":", "/", "/", "a", "r", "c", "h", "i", "v", "e", ".", "o", "r", "g", "/", "d", "e", "t", "a", "i", "l", "s", "/", "h", "t", "t", "p", ":", "/", "/", "a", "r", "c", "h", "i", "v", "e", ".", "o", "r", "g", "/", "d", "e", "t", "a", "i", "l", "s", "/", "f", "o", "o">>,
   <<"h", "t", "t", "p", "s", ":", "/", "/", "a", "r", "c", "h", "i", "v", "e", ".", "o", "r", "g", "/", "s", "e", "a", "r", "c", "h", "?", "q", "u", "e", "r", "y", "=", "f", "o", "o">>}

ExtractCalls ==
  {[fn |-> "extractIdentifierFromUrl", done |-> FALSE, urlOrId |-> u,
    ret |-> <<>>, again |-> FALSE, ret2 |-> <<>>] : u \in UrlOrIds}

\* extractIdentifierFromUrl(urlOrId)
Extract ==
  /\ call.fn = "extractIdentifierFromUrl" /\ ~call.done
  /\ call' = [call EXCEPT
       !.done = TRUE, !.ret = extractIdentifierFromUrl(call.urlOrId)]
  /\ UNCHANGED captureVars

\* extractIdentifierFromUrl(id), id the identifier an earlier call returned
ExtractAgain ==
  /\ call.fn = "extractIdentifierFromUrl" /\ call.done /\ ~call.again
  /\ call' = [call EXCEPT
       !.again = TRUE, !.ret2 = extractIdentifierFromUrl(call.ret)]
  /\ UNCHANGED captureVars

\* files of metadata responses: the two of the item "foo", audio files with
\* and without a length, a size that is no number, a text file and a video
\* file whose extension the resolver does not take for video
FooFiles ==
  <<RawFile(<<"a", ".", "m", "p", "3">>, <<"V", "B", "R", " ", "M", "P", "3">>,
            <<"string", <<"1", "0", "0", "0", "0", "0", "0">>>>, <<>>, <<>>),
    RawFile(<<"b", ".", "m", "p", "4">>, <<"M", "P", "E", "G", "4">>, <<"number", 2000000>>,
            <<"o", "r", "i", "g", "i", "n", "a", "l">>, <<>>)>>

RawFiles ==
  {FooFiles[1], FooFiles[2],
   RawFile(<<"c", " ", "d", ".", "o", "g", "g">>, <<>>, <<>>, <<>>, <<"0", "2", ":", "0", "3">>),
   RawFile(<<"d", ".", "f", "l", "a", "c">>, <<>>, <<"string", <<"b", "i", "g">>>>, <<>>,
           <<"1", ":", "0", "2", ":", "0", "3">>),
   RawFile(<<"e", ".", "p", "d", "f">>, <<"T", "e", "x", "t", " ", "P", "D", "F">>, <<>>, <<>>, <<>>),
   RawFile(<<"g", ".", "m", "p", "e", "g">>, <<>>, <<"number", 30 * MEGABYTE>>,
           <<"o", "r", "i", "g", "i", "n", "a", "l">>, <<>>)}

RawFileLists == UNION {[1..n -> RawFiles] : n \in 0..MaxFiles}

\* what the fetch of the metadata settles with: a transport failure, or a
\* response with a status and a body
Response(transport, status, body) ==
  [transport |-> transport, status |-> status, body |-> body]

NoBody == Body("invalid", <<>>, <<>>)

FooBodies ==
  {NoBody, Body("null", <<>>, <<>>), Body("string", <<>>, <<>>),
   Body("array", <<>>, <<>>), Body("object", <<>>, <<>>),
   Body("object", <<"string">>, <<>>),
   Body("object", <<"array", FooFiles>>, <<>>),
   Body("object", <<"array", FooFiles>>, <<<<"F", "o", "o">>>>)}

FooResponses ==
  {Response("error", 0, NoBody)}
    \cup {Response("ok", s, NoBody) : s \in {403, 404, 500}}
    \cup {Response("ok", 200, b) : b \in FooBodies}

ListResponses ==
  {Response("ok", 200, Body("object", <<"array", l>>, <<>>)) :
     l \in RawFileLists}

\* start positions: none, 0, half a second, 12 s, 90.5 s, not finite
StartSeconds ==
  {<<>>, <<"number", 0>>, <<"number", 500>>, <<"number", 12000>>,
   <<"number", 90500>>, <<"Infinity">>, <<"NaN">>}

ResolveIds ==
  {<<"f", "o", "o">>,
   <<"h", "t", "t", "p", "s", ":", "/", "/", "a", "r", "c", "h", "i", "v", "e", ".", "o", "r", "g", "/", "d", "e", "t", "a", "i", "l", "s", "/", "f", "o", "o">>,
   <<"H", "T", "T", "P", "S", ":", "/", "/", "A", "R", "C", "H", "I", "V", "E", ".", "O", "R", "G", "/", "D", "E", "T", "A", "I", "L", "S", "/", "F", "o", "o", "?", "x", "=", "1">>}

ResolveCall(urlOrId, startSeconds, response) ==
  [fn |-> "resolveArchiveMedia", done |-> FALSE, pc |-> "start",
   urlOrId |-> urlOrId, startSeconds |-> startSeconds, response |-> response,
   identifier |-> <<>>, fetches |-> 0, error |-> NoError, ret |-> <<>>]

ResolveCalls ==
  {ResolveCall(u, s, r) : u \in ResolveIds, s \in StartSeconds,
                          r \in FooResponses}
    \cup {ResolveCall(<<"f", "o", "o">>, <<>>, r) : r \in ListResponses}

\* the promise of resolveArchiveMedia rejects with the error e
rejected(c, e) == [c EXCEPT !.done = TRUE, !.pc = "rejected", !.error = e]

\* resolveArchiveMedia(urlOrId, startSeconds) up to the fetch of
\* fetchArchiveMetadata
ResolveArchiveMedia ==
  /\ call.fn = "resolveArchiveMedia" /\ call.pc = "start"
  /\ call' = [call EXCEPT
       !.identifier = extractIdentifierFromUrl(call.urlOrId),
       !.fetches = @ + 1, !.pc = "fetch"]
  /\ UNCHANGED captureVars

\* await fetch(url): the catch around it and the test of resp.ok
MetadataFetchSettle ==
  /\ call.fn = "resolveArchiveMedia" /\ call.pc = "fetch"
  /\ call' =
       IF call.response.transport = "error"
       THEN rejected(call, Error("network error", 0, call.identifier))
       ELSE IF ~isOk(call.response.status)
       THEN rejected(call, statusError(call.response.status, call.identifier))
       ELSE [call EXCEPT !.pc = "json"]
  /\ UNCHANGED captureVars

\* await resp.json(), outside any try, then the rest of fetchArchiveMetadata
\* and of resolveArchiveMedia
MetadataJsonSettle ==
  /\ call.fn = "resolveArchiveMedia" /\ call.pc = "json"
  /\ call' =
       LET data == call.response.body
       IN  IF data.type = "invalid"
           THEN rejected(call, Error("SyntaxError", 0, <<>>))
           ELSE IF ~isArchiveApiResponse(data)
           THEN rejected(call, Error("unexpected metadata format", 0,
                                     call.identifier))
           ELSE [call EXCEPT
                  !.done = TRUE, !.pc = "returned",
                  !.ret = <<resolutionOf(call.identifier, metadataOf(data),
                                         call.startSeconds)>>]
  /\ UNCHANGED captureVars

PureCalls ==
  RequestCalls \cup NormalizeCalls \cup ClassifyCalls \cup ScoreCalls
    \cup SplitCalls \cup PickCalls \cup ParseCalls \cup FmtCalls \cup ExtractCalls
    \cup ResolveCalls

PureInit == CaptureIdle /\ call \in PureCalls

PureNext ==
  \/ Normalize \/ NormalizeRequested \/ Classify \/ ClassifyAgain \/ Score \/ Split \/ PickBest
  \/ ParseHMS \/ FmtHMS \/ ParseFormatted \/ Extract \/ ExtractAgain
  \/ ResolveArchiveMedia \/ MetadataFetchSettle \/ MetadataJsonSettle

PureSpec == PureInit /\ [][PureNext]_vars

\* ------------------------------------------------------------- vocabulary

\* invocation with locals r was accepted and has not released the guard
HoldsGuard(r) == r.pc \notin {"idle", "rejected", "notReady"} /\ ~r.released

\* the pcs of Recording: from the construction of the audio graph to the end
\* of the wait for the outputs
RecordingPcs ==
  {"worklet", "ctxResume", "clonePlay", "waitFlow", "recording", "awaitWebm"}

\* the pcs between the pause of the primary element and its restore
PausedPcs ==
  {"seekSeeked", "seekCanplay"} \cup RecordingPcs
    \cup {"persistFolder", "persistWrite", "clipboard"}

\* the exits of a capture that failed after it had paused the primary element
FailuresAfterPause ==
  {"seekFail", "noWebAudio", "workletFail", "graphThrow", "playFail",
   "flowThrow", "empty", "folderFail", "writeFail"}

NoResources(r) ==
  r.clone # "attached" /\ r.ctx # "open" /\ r.nodes # "connected"

\* the exits of an accepted capture through a return statement
ReturnExits ==
  {"saved", "prepFail", "seekFail", "noWebAudio", "workletFail", "playFail",
   "empty", "folderFail", "writeFail"}

\* ------------------------------------------------------------------ claims

\* C1: single-flight.  At most one invocation holds the guard, the guard is
\* set whenever one does, no request is accepted while the guard is set, and
\* a request refused by the guard changes neither the guard, nor the other
\* invocations' clone and graph, nor the primary element.
C1_SingleFlight ==
  /\ [](/\ Cardinality({i \in Calls : HoldsGuard(sess[i])}) <= 1
        /\ (\E i \in Calls : HoldsGuard(sess[i])) => isClipping)
  /\ [][\A i \in Calls :
          /\ (sess[i].pc = "idle" /\ sess'[i].pc \notin {"idle", "notReady"}
                /\ isClipping)
               => /\ sess' = [sess EXCEPT ![i].pc = "rejected"]
                  /\ isClipping' /\ el' = el
          /\ sess'[i].pc = "rejected" /\ sess[i].pc = "idle" => isClipping
       ]_vars

C1_Witness ==
  \E i, j \in Calls : sess[i].pc = "recording" /\ sess[j].pc = "rejected"

\* C2: the guard is never false while a clone is attached, an audio context
\* is open or a node is connected; an invocation that has released the guard
\* has removed its clone, disconnected its nodes and closed its context; and
\* an invocation on its way out through a return statement (success, source
\* preparation, seek, Web Audio, worklet, hidden playback, empty capture,
\* persist) has released the guard.
C2_TornDownBeforeRelease ==
  /\ \A i \in Calls : sess[i].released => NoResources(sess[i])
  /\ ~isClipping => \A i \in Calls : NoResources(sess[i])
  /\ \A i \in Calls : sess[i].outcome \in ReturnExits => sess[i].released

C2_Witness ==
  \E i \in Calls :
    /\ sess[i].released /\ ~isClipping
    /\ sess[i].clone = "removed"
    /\ sess[i].ctx = "closed" /\ sess[i].nodes = "disconnected"

\* C3: when saveArchiveClip ends after a failure that followed the pause of
\* the primary element, the guard is released and the primary element is
\* playing exactly if it was playing before the capture.
C3_FailureRestoresPrimary ==
  \A i \in Calls :
    (sess[i].pc \in {"done", "thrown"} /\ sess[i].outcome \in FailuresAfterPause)
      => /\ sess[i].released
         /\ el.paused = ~sess[i].wasPlaying

\* C4: when saveArchiveClip ends, neither the blob URL of the clone's source
\* nor the object URL of the worklet module is still un-revoked.
C4_NoUrlLeftLive ==
  \A i \in Calls :
    sess[i].pc \in {"done", "thrown"}
      => sess[i].blobUrl # "live" /\ sess[i].workletUrl # "live"

\* C5: revokeObjectURL is never called twice for the same URL.
C5_RevokedAtMostOnce ==
  \A i \in Calls : sess[i].workletRevokes <= 1 /\ sess[i].blobRevokes <= 1

\* C6: a capture whose seek was settled by the 4000 ms timeout, the two
\* signals not having both arrived, builds no audio graph and records nothing.
C6_SeekTimeoutAborts ==
  \A i \in Calls :
    sess[i].ready = "timeout"
      => sess[i].ctx = "none" /\ sess[i].pc \notin RecordingPcs

\* C7: whenever the guard is set it is eventually released.
C7_GuardEventuallyReleased == isClipping ~> ~isClipping

\* C8: an invocation that has released the guard takes no step that changes
\* the primary element (no seek to the clip end, no resume).
C8_NoStepAfterRelease ==
  [][\A i \in Calls :
       (sess[i].released /\ sess[i].pc \notin Terminal /\ sess'[i] # sess[i])
         => el' = el]_vars

\* C9: from the step in which an invocation pauses the primary element until
\* the step in which it restores it, the primary element stays paused and at
\* its position.
C9_PrimaryStaysPaused ==
  [][(\E i \in Calls : sess[i].pc \in PausedPcs /\ sess'[i].pc \in PausedPcs)
       => el'.paused /\ el'.currentTime = el.currentTime]_vars

\* C10: the clone is seeked only after its source is local or rewritten and
\* its metadata is loaded; the audio graph exists, the clone plays and the
\* recorder runs only after both seeked and canplay have fired or the seek
\* timeout has elapsed.
C10_PhasesInOrder ==
  \A i \in Calls :
    /\ sess[i].seekSet => sess[i].metaLoaded /\ sess[i].cloneSrc # "remote"
    /\ sess[i].pc \in RecordingPcs
         => sess[i].seekSet /\ sess[i].ready \in {"signals", "timeout"}
    /\ (\/ sess[i].ctx = "open" \/ sess[i].nodes = "connected"
        \/ sess[i].clonePlaying \/ sess[i].mr # "none"
        \/ sess[i].stopTimer # "none")
         => sess[i].pc \in RecordingPcs \cup {"thrown"}

C10_Witness ==
  \E i \in Calls :
    /\ sess[i].pc = "recording" /\ sess[i].ready = "signals"
    /\ sess[i].cloneSrc = "rewritten" /\ sess[i].mr = "recording"

\* C11: the effective start of a request (a, b) is min(a, b); the effective
\* end is max(a, b), pulled back to start + 60 when max(a, b) - min(a, b)
\* exceeds 60; the start is never moved; (80, 10) yields (10, 70).
C11_RangeNormalized ==
  (call.fn = "normalizeWindow" /\ call.done) =>
    LET a  == call.startSec
        b  == call.endSec
        lo == IF a <= b THEN a ELSE b
        hi == IF a <= b THEN b ELSE a
    IN  /\ call.ret.s = lo
        /\ call.ret.e = IF hi - lo > 60 THEN lo + 60 ELSE hi
        /\ call.ret.e - call.ret.s <= 60
        /\ (a = 80 /\ b = 10) => call.ret.s = 10 /\ call.ret.e = 70

C11_Witness ==
  /\ call.fn = "normalizeWindow" /\ call.done
  /\ call.startSec = 80 /\ call.endSec = 10
  /\ call.ret.s = 10 /\ call.ret.e = 70

\* the step of invocation i that builds the outputs and chooses the final blob
Finalizes(i) == sess[i].ext = "none" /\ sess'[i].ext # "none"

C13_EmptyIsNotSuccess ==
  /\ [](\A i \in Calls :
          /\ sess[i].outcome = "empty"
               => /\ ~sess[i].written /\ sess[i].embed = "none"
                  /\ sess[i].released /\ sess[i].finalSize = 0
          /\ sess[i].written => sess[i].finalSize > 0)
  /\ [][\A i \in Calls : Finalizes(i) =>
          LET r == sess[i]
              q == sess'[i]
          IN  /\ (r.totalSamples = 0 /\ ~(r.mr = "stopped" /\ r.webm > 0))
                   => q.finalSize = 0
              /\ q.finalSize = 0 <=> q.outcome = "empty"
              /\ q.outcome = "empty"
                   => /\ ~isClipping'
                      /\ q.pc \in {"restorePlay", "done"}
                      /\ el'.currentTime = r.e
                      /\ r.wasPlaying => ~el'.paused
                      /\ ~r.wasPlaying => el'.paused = el.paused
       ]_vars

C13_Witness ==
  \E i \in Calls :
    /\ sess[i].pc = "done" /\ sess[i].outcome = "empty"
    /\ sess[i].wasPlaying /\ ~el.paused /\ el.currentTime = sess[i].e
    /\ ~isClipping

extensionOf(name) ==
  LET dots == {k \in 1..Len(name) : name[k] = "."}
  IN  IF dots = {} THEN <<>>
      ELSE LET last == CHOOSE k \in dots : \A j \in dots : j <= k
           IN  toLowerCase(SubSeq(name, last + 1, Len(name)))

\* C20: a file whose name ends in an audio, video or text extension (any
\* letter case) gets that kind whatever its format string is; only a file
\* with no such extension is classified by its format string, and it is
\* other when the format string has no known keyword or is absent.
C20_ExtensionThenFormat ==
  (call.fn = "classifyFileKind" /\ call.done) =>
    LET ext == extensionOf(call.file.name)
        fmt == call.file.format
    IN  /\ ext \in AUDIO_EXT => call.ret = "audio"
        /\ ext \in VIDEO_EXT => call.ret = "video"
        /\ ext \in TEXT_EXT => call.ret = "text"
        /\ ext \notin (AUDIO_EXT \cup VIDEO_EXT \cup TEXT_EXT) =>
             /\ fmt = <<>> => call.ret = "other"
             /\ fmt \in {<<"V", "B", "R", " ", "M", "P", "3">>, <<"O", "g", "g", " ", "V", "o", "r", "b", "i", "s">>}
                  => call.ret = "audio"
             /\ fmt \in {<<"M", "P", "E", "G", "4">>, <<"h", ".", "2", "6", "4">>}
                  => call.ret = "video"
             /\ fmt = <<"T", "e", "x", "t", " ", "P", "D", "F">> => call.ret = "text"
             /\ fmt \in {<<"M", "e", "t", "a", "d", "a", "t", "a">>, <<"J", "P", "E", "G", " ", "T", "h", "u", "m", "b">>}
                  => call.ret = "other"

C20_Witness ==
  /\ call.fn = "classifyFileKind" /\ call.done
  /\ call.file.name = <<"A", ".", "M", "P", "3">>
  /\ call.file.format = <<"M", "P", "E", "G", "4">>
  /\ call.ret = "audio"

\* the rank of a kind in the order video > audio > text > other
kindRank(kind) ==
  CASE kind = "video" -> 4 [] kind = "audio" -> 3 [] kind = "text" -> 2
    [] OTHER -> 1

\* files x and y agree in provenance and in the extension bonus
SameBonuses(x, y) ==
  /\ x.source = y.source
  /\ test(STANDARD_EXT, x.name) = test(STANDARD_EXT, y.name)

\* C18: of two files with the same provenance, size and extension bonus the
\* one whose kind ranks higher (video > audio > text > other) has the
\* strictly higher score.
C18_ScoreOrderedByKind ==
  (call.fn = "score" /\ call.done) =>
    ((/\ SameBonuses(call.a, call.b)
      /\ call.a.hasSize = call.b.hasSize /\ call.a.size = call.b.size
      /\ kindRank(classifyFileKind(call.a)) > kindRank(classifyFileKind(call.b)))
       => call.ret[1] > call.ret[2])

C18_Witness ==
  /\ call.fn = "score" /\ call.done
  /\ call.a.name = <<"d", ".", "a", "i", "f", "f">> /\ call.b.name = <<"e", ".", "p", "d", "f">>
  /\ call.a.hasSize /\ call.b.hasSize
  /\ call.a.size = 10 * MEGABYTE /\ call.b.size = 10 * MEGABYTE
  /\ call.a.source = call.b.source
  /\ call.ret[1] > call.ret[2]

\* C19: the size term is the number of full megabytes, at most 15, and of
\* two files that differ only in kind and size the video scores strictly
\* higher than the audio whatever their sizes.
C19_SizeNeverDominatesKind ==
  (call.fn = "score" /\ call.done) =>
    /\ sizeScore(call.a) <= 15
    /\ (call.a.hasSize /\ call.a.size < 16 * 1048576)
         => sizeScore(call.a) * 1048576 <= call.a.size
            /\ call.a.size < (sizeScore(call.a) + 1) * 1048576
    /\ (/\ SameBonuses(call.a, call.b)
        /\ classifyFileKind(call.a) = "video"
        /\ classifyFileKind(call.b) = "audio")
         => call.ret[1] > call.ret[2]

\* the kinds of file the player can play natively
PlayableKinds == {"audio", "video"}

\* the positions of the playable files in list l
PlayableAt(l) == {k \in 1..Len(l) : classifyFileKind(l[k]) \in PlayableKinds}

\* C15: the file returned is a playable file of maximal score, and among the
\* playable files of maximal score it is the first of the input list.
C15_BestIsFirstMaximum ==
  (call.fn = "pickBestPlayableFile" /\ call.done /\ PlayableAt(call.arg) # {}) =>
    LET l    == call.arg
        tops == {k \in PlayableAt(l) :
                   \A j \in PlayableAt(l) : score(l[j]) <= score(l[k])}
        first == CHOOSE k \in tops : \A j \in tops : k <= j
    IN  call.ret = <<l[first]>>

C15_Witness ==
  /\ call.fn = "pickBestPlayableFile" /\ call.done
  /\ Len(call.arg) = 3
  /\ classifyFileKind(call.arg[1]) = "text"
  /\ call.arg[2].name = <<"c", ".", "M", "k", "v">>
  /\ call.arg[3].name = <<"a", ".", "m", "p", "3">>
  /\ score(call.arg[2]) = score(call.arg[3])
  /\ call.ret = <<call.arg[2]>>

\* C16: for a list with a file of kind audio or video the result is a member
\* of the list of kind audio or video; for a list without one, the empty
\* list included, it is null; the list passed in is left as it was.
C16_ResultIsPlayableMember ==
  (call.fn = "pickBestPlayableFile" /\ call.done) =>
    /\ PlayableAt(call.arg) # {}
         => /\ Len(call.ret) = 1
            /\ \E k \in 1..Len(call.arg) : call.arg[k] = call.ret[1]
            /\ classifyFileKind(call.ret[1]) \in PlayableKinds
    /\ PlayableAt(call.arg) = {} => call.ret = <<>>
    /\ call.files = call.arg

C16_Witness ==
  /\ call.fn = "pickBestPlayableFile" /\ call.done
  /\ Len(call.arg) = 2
  /\ classifyFileKind(call.arg[1]) = "other"
  /\ classifyFileKind(call.arg[2]) = "text"
  /\ call.ret = <<>>

\* C17: every output list of splitByKind is the input list restricted to the
\* files of its kind, in input order and with repetitions kept, so the four
\* lists together have the length of the input.
C17_SplitPartitions ==
  (call.fn = "splitByKind" /\ call.done) =>
    LET l == call.files
        Of(kind) == SelectSeq(l, LAMBDA f : classifyFileKind(f) = kind)
    IN  /\ call.ret.audio = Of("audio")
        /\ call.ret.video = Of("video")
        /\ call.ret.text = Of("text")
        /\ call.ret.other = Of("other")
        /\ Len(call.ret.audio) + Len(call.ret.video) + Len(call.ret.text)
             + Len(call.ret.other) = Len(l)

C17_Witness ==
  /\ call.fn = "splitByKind" /\ call.done
  /\ Len(call.files) = 3
  /\ call.files[1] = call.files[3]
  /\ classifyFileKind(call.files[1]) = "other"
  /\ classifyFileKind(call.files[2]) = "audio"
  /\ Len(call.ret.other) = 2 /\ Len(call.ret.audio) = 1

\* C29: a capture request made while the mounted player is no media element
\* (nothing mounted, or the iframe fallback) ends at the readiness check: the
\* step leaves the guard, the primary element and every local of the
\* invocation but its position as they were, so no clone, no fetch, no audio
\* context and no recorder exists for it; with such a player no invocation
\* ever gets further.
C29_NotReadyAllocatesNothing ==
  /\ [](archiveMediaEl \in {"none", "iframe"} =>
         /\ ~isClipping
         /\ \A i \in Calls :
              /\ sess[i].pc \in {"idle", "notReady"}
              /\ sess[i] = [NoSess EXCEPT !.pc = sess[i].pc])
  /\ [][\A i \in Calls :
         (archiveMediaEl \in {"none", "iframe"} /\ sess[i].pc = "idle"
            /\ sess'[i].pc # "idle")
           => /\ sess'[i] = [sess[i] EXCEPT !.pc = "notReady"]
              /\ isClipping' = isClipping
              /\ el' = el]_vars

C29_Witness ==
  /\ archiveMediaEl = "iframe"
  /\ \E i \in Calls : sess[i].pc = "notReady" /\ sess[i].clone = "none"
  /\ ~isClipping /\ ~el.paused

\* C30: the recording is left only after the stop timer has fired: the step
\* that takes an invocation out of the recording wait finds the timer fired,
\* and a timer still pending belongs to an invocation that is recording and
\* holds the guard, so it never fires for a capture that has ended.
C30_StopBeforeAssembly ==
  /\ [](\A i \in Calls :
         sess[i].stopTimer = "pending"
           => sess[i].pc = "recording" /\ ~sess[i].released)
  /\ [][\A i \in Calls :
         (sess[i].pc = "recording" /\ sess'[i].pc # "recording")
           => sess[i].stopTimer = "fired"]_vars

C30_Witness ==
  \E i \in Calls :
    /\ sess[i].pc = "awaitWebm"
    /\ sess[i].stopTimer = "fired"
    /\ sess[i].mr = "stopping"
    /\ ~sess[i].clonePlaying

MediaKinds == {"audio", "video", "text", "other"}

\* C21: classifyFileKind returns one of audio, video, text and other for
\* every file, whatever its name and whether or not it has a format, and a
\* second call with the same file returns the kind the first returned: the
\* patterns it tests the name with carry nothing from one call to the next.
C21_TotalAndDeterministic ==
  (call.fn = "classifyFileKind" /\ call.done) =>
    /\ call.ret \in MediaKinds
    /\ call.ret = classifyFileKindFrom(call.file, FreshLastIndex).ret
    /\ call.again # "none" => call.again = call.ret

C21_Witness ==
  /\ call.fn = "classifyFileKind" /\ call.done
  /\ call.file.name = <<"A", ".", "M", "P", "3">>
  /\ call.file.format = <<>>
  /\ call.ret = "audio" /\ call.again = "audio"

\* a component of a length string that is written as a number: one decimal
\* digit or more, spaces around them aside
IsNumeric(part) ==
  trim(part) # <<>> /\ \A k \in 1..Len(trim(part)) : IsDigit(trim(part)[k])

\* C23: parseHMS reads h:m:s, m:s and s as seconds and yields 0 for an
\* absent string, for a string with a component that is not a number and for
\* one of more than three components; fmtHMS writes seconds with minutes and
\* seconds padded to two digits after an hour count that appears only when
\* it is not zero.  parseHMS("1:02:03") = 3723, parseHMS("02:03") = 123,
\* parseHMS("bad") = 0, fmtHMS(3723) = "1:02:03", fmtHMS(123) = "2:03".
C23_ParseAndFormatHMS ==
  /\ (call.fn = "parseHMS" /\ call.done) =>
       LET parts == split(call.s, ":")
           n(k)  == decimalValue(trim(parts[k]))
       IN  /\ call.s = <<>> => call.ret = 0
           /\ (\E k \in 1..Len(parts) : ~IsNumeric(parts[k])) => call.ret = 0
           /\ Len(parts) > 3 => call.ret = 0
           /\ (\A k \in 1..Len(parts) : IsNumeric(parts[k])) =>
                /\ Len(parts) = 3 => call.ret = n(1) * 3600 + n(2) * 60 + n(3)
                /\ Len(parts) = 2 => call.ret = n(1) * 60 + n(2)
                /\ Len(parts) = 1 => call.ret = n(1)
           /\ call.s = <<"1", ":", "0", "2", ":", "0", "3">> => call.ret = 3723
           /\ call.s = <<"0", "2", ":", "0", "3">> => call.ret = 123
           /\ call.s = <<"b", "a", "d">> => call.ret = 0
  /\ (call.fn = "fmtHMS" /\ call.done) =>
       LET h == call.sec \div 3600
           two(n) == <<Digits[(n \div 10) + 1], Digits[(n % 10) + 1]>>
           mmss == two((call.sec % 3600) \div 60) \o <<":">>
                     \o two(call.sec % 60)
       IN  /\ h > 0 => call.ret = toString(h) \o <<":">> \o mmss
           /\ h = 0 => call.ret = IF Head(mmss) = "0" THEN Tail(mmss) ELSE mmss
           /\ call.sec = 3723 => call.ret = <<"1", ":", "0", "2", ":", "0", "3">>
           /\ call.sec = 123 => call.ret = <<"2", ":", "0", "3">>

\* the identifiers the pattern of a word captures in str: the runs of
\* characters other than / ? # that follow an occurrence of
\* archive.org/<word>/ and end at a delimiter or at the end of str
Captures(word, str) ==
  {SubSeq(str, a, b) : <<a, b>> \in
     {x \in (1..Len(str)) \X (1..Len(str)) :
        /\ x[1] <= x[2]
        /\ x[1] > Len(literalOf(word))
        /\ toLowerCase(SubSeq(str, x[1] - Len(literalOf(word)), x[1] - 1))
             = literalOf(word)
        /\ \A k \in x[1]..x[2] : str[k] \notin Delimiters
        /\ x[2] = Len(str) \/ str[x[2] + 1] \in Delimiters}}

\* C27: extractIdentifierFromUrl returns a string that does not begin with
\* http:// or https:// (in any case) as it is; of a URL it returns an
\* identifier captured by the /details/ pattern if that matches, else one
\* captured by /embed/ if that matches, else one captured by /download/, and
\* the URL itself when none matches; it returns a string for every input.
C27_ExtractIdentifier ==
  (call.fn = "extractIdentifierFromUrl" /\ call.done) =>
    LET u == call.urlOrId
        details  == Captures(<<"d", "e", "t", "a", "i", "l", "s">>, u)
        embed    == Captures(<<"e", "m", "b", "e", "d">>, u)
        download == Captures(<<"d", "o", "w", "n", "l", "o", "a", "d">>, u)
    IN  /\ call.ret \in Seq({u[k] : k \in 1..Len(u)})
        /\ ~isHttpUrl(u) => call.ret = u
        /\ isHttpUrl(u) =>
             /\ details # {} => call.ret \in details
             /\ (details = {} /\ embed # {}) => call.ret \in embed
             /\ (details = {} /\ embed = {} /\ download # {})
                  => call.ret \in download
             /\ (details = {} /\ embed = {} /\ download = {}) => call.ret = u
        /\ u = <<"H", "T", "T", "P", "S", ":", "/", "/", "A", "R", "C", "H", "I", "V", "E", ".", "O", "R", "G", "/", "D", "E", "T", "A", "I", "L", "S", "/", "F", "o", "o", "?", "x", "=", "1">>
             => call.ret = <<"F", "o", "o">>
        /\ u = <<"h", "t", "t", "p", "s", ":", "/", "/", "a", "r", "c", "h", "i", "v", "e", ".", "o", "r", "g", "/", "d", "o", "w", "n", "l", "o", "a", "d", "/", "b", "a", "z", "/", "a", ".", "m", "p", "3">>
             => call.ret = <<"b", "a", "z">>

C27_Witness ==
  /\ call.fn = "extractIdentifierFromUrl" /\ call.done
  /\ call.urlOrId = <<"h", "t", "t", "p", "s", ":", "/", "/", "a", "r", "c", "h", "i", "v", "e", ".", "o", "r", "g", "/", "e", "m", "b", "e", "d", "/", "b", "a", "r", "?", "u", "=", "a", "r", "c", "h", "i", "v", "e", ".", "o", "r", "g", "/", "d", "e", "t", "a", "i", "l", "s", "/", "f", "o", "o">>
  /\ call.ret = <<"f", "o", "o">>

\* resolveArchiveMedia has returned a resolution
Returned == call.fn = "resolveArchiveMedia" /\ call.pc = "returned"

\* C22: a returned resolution has one track for each file of its audio
\* list, in the order of that list and numbered 1, 2, ..., k; track_count is
\* the length of the track list; duration_total is fmtHMS of the sum of the
\* seconds of the tracks.
C22_TracksFollowAudioFiles ==
  Returned =>
    LET res    == call.ret[1]
        tracks == res.info.tracks
        audio  == SelectSeq(metadataOf(call.response.body).files,
                            LAMBDA f : classifyFileKind(f) = "audio")
    IN  /\ res.audioFiles = audio
        /\ Len(tracks) = Len(audio)
        /\ \A k \in 1..Len(tracks) :
             /\ tracks[k].n = k
             /\ tracks[k].name = audio[k].name
             /\ tracks[k].seconds = parseHMS(audio[k].length)
        /\ res.info.track_count = Len(tracks)
        /\ res.info.duration_total = fmtHMS(totalSeconds(tracks))

C22_Witness ==
  /\ Returned
  /\ Len(call.response.body.files[2]) = 3
  /\ call.ret[1].info.track_count = 2
  /\ call.ret[1].info.tracks[1].name = <<"c", " ", "d", ".", "o", "g", "g">>
  /\ call.ret[1].info.tracks[1].n = 1
  /\ call.ret[1].info.tracks[2].name = <<"d", ".", "f", "l", "a", "c">>
  /\ call.ret[1].info.tracks[2].n = 2
  /\ call.ret[1].info.duration_total = <<"1", ":", "0", "4", ":", "0", "6">>
  /\ Len(call.ret[1].textFiles) = 1

\* C24: a returned resolution has bestFileUrl and bestFileKind exactly when
\* pickBestPlayableFile returns a file for the files of the item, and then
\* bestFileKind is video if the name of that file ends, in any case, in
\* .mp4, .m4v, .webm, .ogv, .mov or .mkv and audio if not, and bestFileUrl
\* is the download URL of that file.
C24_BestFileFields ==
  Returned =>
    LET res  == call.ret[1]
        best == pickBestPlayableFile(metadataOf(call.response.body).files).ret
    IN  /\ (res.bestFileUrl # <<>>) <=> (best # <<>>)
        /\ (res.bestFileKind # <<>>) <=> (best # <<>>)
        /\ best # <<>> =>
             /\ res.bestFileKind[1] =
                  IF \E x \in {<<".", "m", "p", "4">>, <<".", "m", "4", "v">>, <<".", "w", "e", "b", "m">>,
                                <<".", "o", "g", "v">>, <<".", "m", "o", "v">>, <<".", "m", "k", "v">>} :
                       endsWith(toLowerCase(best[1].name), x)
                  THEN "video" ELSE "audio"
             /\ res.bestFileUrl[1] =
                  <<"h", "t", "t", "p", "s", ":", "/", "/", "a", "r", "c", "h", "i", "v", "e", ".", "o", "r", "g", "/", "d", "o", "w", "n", "l", "o", "a", "d", "/">>
                    \o encodeURIComponent(res.identifier) \o <<"/">>
                    \o encodeURIComponent(best[1].name)

C24_Witness ==
  /\ Returned
  /\ Len(call.response.body.files[2]) = 2
  /\ call.response.body.files[2][1].name = <<"e", ".", "p", "d", "f">>
  /\ call.response.body.files[2][2].name = <<"g", ".", "m", "p", "e", "g">>
  /\ call.ret[1].bestFileKind = <<"audio">>
  /\ call.ret[1].bestFileUrl =
       <<<<"h", "t", "t", "p", "s", ":", "/", "/", "a", "r", "c", "h", "i", "v", "e", ".", "o", "r", "g", "/", "d", "o", "w", "n", "l", "o", "a", "d", "/", "f", "o", "o", "/", "g", ".", "m", "p", "e", "g">>>>

\* C25: a returned resolution has the embed URL of its identifier; with a
\* finite start position passed the URL ends in ?start= and the position
\* floored to whole seconds, and with none passed it has no query.
C25_EmbedUrlStart ==
  Returned =>
    LET res  == call.ret[1]
        base == <<"h", "t", "t", "p", "s", ":", "/", "/", "a", "r", "c", "h", "i", "v", "e", ".", "o", "r", "g", "/", "e", "m", "b", "e", "d", "/">> \o res.identifier
        st   == call.startSeconds
    IN  /\ SubSeq(res.embedUrl, 1, Len(base)) = base
        /\ (st # <<>> /\ st[1] = "number") =>
             res.embedUrl = base \o <<"?", "s", "t", "a", "r", "t", "=">>
                              \o toString(st[2] \div 1000)
        /\ st = <<>> => res.embedUrl = base

\* the four failures of the metadata request
TransportFailed == call.response.transport = "error"

NotFound == call.response.transport = "ok" /\ call.response.status = 404

OtherStatus ==
  /\ call.response.transport = "ok"
  /\ call.response.status \notin 200..299
  /\ call.response.status # 404

BadFormat ==
  /\ call.response.transport = "ok"
  /\ call.response.status \in 200..299
  /\ ~(/\ call.response.body.type = "object"
       /\ call.response.body.files # <<>>
       /\ call.response.body.files[1] = "array")

\* C26: a finished resolveArchiveMedia has rejected with the network error
\* after a transport failure, with the not-found error after status 404,
\* with the error carrying the status after another status outside 2xx and
\* with the format error after a 2xx body that is no object with an array
\* files; in these cases it has no result, it made one request, and a call
\* that has a result has no error.
C26_RejectsWithoutPartialResult ==
  (call.fn = "resolveArchiveMedia" /\ call.done) =>
    /\ TransportFailed => call.error.type = "network error"
    /\ NotFound => call.error.type = "item not found"
    /\ OtherStatus => /\ call.error.type = "status"
                       /\ call.error.status = call.response.status
    /\ BadFormat => call.error.type = "unexpected metadata format"
    /\ (TransportFailed \/ NotFound \/ OtherStatus \/ BadFormat) =>
         /\ call.pc = "rejected"
         /\ call.ret = <<>>
         /\ call.error.identifier = call.identifier
    /\ call.fetches = 1
    /\ call.ret # <<>> => call.error = NoError

\* C28: the item foo with the files a.mp3 (VBR MP3, size "1000000") and
\* b.mp4 (MPEG4, size 2000000, source original) resolves with the size of
\* a.mp3 the number 1000000, a.mp3 audio and b.mp4 video, b.mp4 the best
\* file, of kind video, and one track, a.mp3 with ordinal 1.
C28_FooScenario ==
  (/\ Returned
   /\ call.identifier = <<"f", "o", "o">>
   /\ call.response.body.files[2] = FooFiles) =>
    LET res == call.ret[1]
    IN  /\ Len(res.audioFiles) = 1 /\ Len(res.videoFiles) = 1
        /\ res.textFiles = <<>> /\ res.otherFiles = <<>>
        /\ res.audioFiles[1].name = <<"a", ".", "m", "p", "3">>
        /\ res.audioFiles[1].hasSize /\ res.audioFiles[1].size = 1000000
        /\ res.videoFiles[1].name = <<"b", ".", "m", "p", "4">>
        /\ res.videoFiles[1].hasSize /\ res.videoFiles[1].size = 2000000
        /\ res.bestFileUrl =
             <<<<"h", "t", "t", "p", "s", ":", "/", "/", "a", "r", "c", "h", "i", "v", "e", ".", "o", "r", "g", "/", "d", "o", "w", "n", "l", "o", "a", "d", "/", "f", "o", "o", "/", "b", ".", "m", "p", "4">>>>
        /\ res.bestFileKind = <<"video">>
        /\ res.info.track_count = 1
        /\ Len(res.info.tracks) = 1
        /\ res.info.tracks[1].name = <<"a", ".", "m", "p", "3">>
        /\ res.info.tracks[1].n = 1

C28_Witness ==
  /\ Returned
  /\ call.urlOrId = <<"f", "o", "o">>
  /\ call.response.body.files[2] = FooFiles
  /\ call.ret[1].audioFiles[1].size = 1000000
  /\ call.ret[1].bestFileKind = <<"video">>
  /\ call.ret[1].info.tracks[1].n = 1

\* C33: once the clone has fired both 'seeked' and 'canplay', in either
\* order, the capture has left the seek wait (it does not stay there until
\* the 4000 ms timeout).
C33_BothSignalsEndSeekWait ==
  \A i \in Calls :
    (sess[i].seekedFired /\ sess[i].canplayFired)
      => sess[i].pc \notin {"seekSeeked", "seekCanplay"}

\* C37: extractIdentifierFromUrl is idempotent: applied to the identifier it
\* returned, it returns that identifier again.
C37_ExtractIdempotent ==
  (call.fn = "extractIdentifierFromUrl" /\ call.again) => call.ret2 = call.ret

C37_Witness ==
  /\ call.fn = "extractIdentifierFromUrl" /\ call.again
  /\ isHttpUrl(call.urlOrId)
  /\ call.ret # call.urlOrId
  /\ call.ret2 = call.ret

\* C38: parseHMS(fmtHMS(n)) = n for every whole number n >= 0 of seconds,
\* below one hour and from one hour on.
C38_FormatThenParse ==
  (call.fn = "fmtHMS" /\ call.again) => call.parsed = call.sec

C38_Witness ==
  /\ call.fn = "fmtHMS" /\ call.again
  /\ call.sec = 3723
  /\ call.ret = <<"1", ":", "0", "2", ":", "0", "3">>
  /\ call.parsed = 3723

\* C36: a score is a whole number from -20 to 55, and an audio or video file
\* scores strictly higher than a text or other file, whatever the
\* provenance, the size (absent or present) and the names of the two.
C36_ScoreRangeAndPlayableFirst ==
  (call.fn = "score" /\ call.done) =>
    /\ call.ret[1] \in -20..55
    /\ call.ret[2] \in -20..55
    /\ (/\ classifyFileKind(call.a) \in {"audio", "video"}
        /\ classifyFileKind(call.b) \in {"text", "other"})
         => call.ret[1] > call.ret[2]

C36_Witness ==
  /\ call.fn = "score" /\ call.done
  /\ classifyFileKind(call.a) = "audio" /\ ~call.a.hasSize
  /\ classifyFileKind(call.b) = "text" /\ call.b.hasSize
  /\ call.b.size > SIZE_CAP * MEGABYTE
  /\ call.ret = <<20, 10>>

MaxRenders == 3

\* what one call of renderArchiveFromUrl keeps in its closure and on the
\* element it created: isDirectFile, settled, whether the tick interval
\* runs, the native element (none, loading, metadata: duration set and
\* loadedmetadata queued, loaded, canplay, failed, emptied: disposed and
\* reloaded without source), its duration, the {once: true} listeners still
\* registered, the safety timeout, the iframes mounted, the disabled
\* attribute of markBtn and clipBtn, and the handlers that ran to their end
Render(isDirectFile) ==
  [isDirectFile |-> isDirectFile, settled |-> FALSE, tick |-> FALSE,
   el |-> "none", duration |-> "NaN", listeners |-> {}, timer |-> "none",
   iframes |-> 0, disabled |-> FALSE, committed |-> FALSE,
   fellBack |-> FALSE]

\* const stopTick = () => { if (tick != null) { clearInterval(tick); ... } }
stopTick(r) == [r EXCEPT !.tick = FALSE]

\* const startTick = () => { if (tick == null) tick = setInterval(...) }
startTick(r) == [r EXCEPT !.tick = TRUE]

\* const mountIframe = () => { ... }; this.archiveMediaEl = iframe is the
\* caller's part, made when r.iframes has grown
mountIframe(r) ==
  [stopTick(r) EXCEPT !.iframes = @ + 1, !.disabled = TRUE]

isSettled_never(r) == FALSE
\* if (settled) return;
isSettled(r) == r.settled

\* const onReady = () => { ... }
onReady(r) ==
  IF isSettled(r) THEN r
  ELSE [startTick(r) EXCEPT !.settled = TRUE, !.committed = TRUE]

\* const onError = () => { ... }: wrap.empty() detaches the native element
onError(r) ==
  IF isSettled(r) THEN r
  ELSE [mountIframe(r) EXCEPT !.settled = TRUE, !.fellBack = TRUE]

\* private disposeArchiveMedia(): the closures after it; the element
\* this.archiveMediaEl refers to, if a media element, has lost its source
\* and was reloaded, which ends its loading and its queued events
disposeArchiveMedia(renders, owner, mounted) ==
  IF mounted = "media"
  THEN [renders EXCEPT ![owner].el = "emptied", ![owner].duration = "NaN"]
  ELSE renders

\* a view on which nothing was rendered yet
RenderInit ==
  /\ archiveMediaEl = "none"
  /\ el = [paused |-> TRUE, ended |-> FALSE, currentTime |-> 0]
  /\ isClipping = FALSE
  /\ sess = [i \in Calls |-> NoSess]
  /\ call = [fn |-> "renderArchiveFromUrl", owner |-> 0, renders |-> <<>>]

\* the closure of render k becomes r2; a mountIframe in the step has
\* assigned its iframe to this.archiveMediaEl
Assign(k, r2) ==
  LET mounted == r2.iframes > call.renders[k].iframes
  IN  /\ call' = [call EXCEPT !.renders[k] = r2,
                              !.owner = IF mounted THEN k ELSE @]
      /\ archiveMediaEl' = IF mounted THEN "iframe" ELSE archiveMediaEl
      /\ UNCHANGED <<el, isClipping, sess>>

\* async renderArchiveFromUrl(url, startSeconds), isDirectFile what the
\* url's form gives
RenderArchiveFromUrl(isDirectFile) ==
  LET disposed == disposeArchiveMedia(call.renders, call.owner, archiveMediaEl)
      k == Len(call.renders) + 1
      r == IF ~isDirectFile THEN mountIframe(Render(isDirectFile))
           ELSE [Render(isDirectFile) EXCEPT
                   !.el = "loading",
                   !.listeners = {"loadedmetadata", "canplay", "error"},
                   !.timer = "pending"]
  IN  /\ call.fn = "renderArchiveFromUrl"
      /\ Len(call.renders) < MaxRenders
      /\ call' = [call EXCEPT !.renders = Append(disposed, r), !.owner = k]
      /\ archiveMediaEl' = IF isDirectFile THEN "media" ELSE "iframe"
      /\ UNCHANGED <<el, isClipping, sess>>

\* the element of render k has read the metadata of its source: duration is
\* set and loadedmetadata is queued
MetadataArrives(k) ==
  /\ call.fn = "renderArchiveFromUrl"
  /\ k \in 1..Len(call.renders)
  /\ call.renders[k].el = "loading"
  /\ Assign(k, [call.renders[k] EXCEPT !.el = "metadata",
                                       !.duration = "known"])

\* the element of render k fires ev; a listener registered for it runs once
MediaEvent(k, ev) ==
  LET r  == call.renders[k]
      r1 == [r EXCEPT
               !.el = CASE ev = "loadedmetadata" -> "loaded"
                        [] ev = "canplay" -> "canplay"
                        [] OTHER -> "failed",
               !.listeners = @ \ {ev}]
  IN  /\ call.fn = "renderArchiveFromUrl"
      /\ k \in 1..Len(call.renders)
      /\ CASE ev = "loadedmetadata" -> r.el = "metadata"
           [] ev = "canplay" -> r.el = "loaded"
           [] ev = "error" -> r.el \in {"loading", "metadata", "loaded",
                                        "canplay"}
           [] OTHER -> FALSE
      /\ Assign(k, IF ev \notin r.listeners THEN r1
                   ELSE IF ev = "error" THEN onError(r1) ELSE onReady(r1))

\* window.setTimeout(() => { if (!settled && (isNaN(el.duration) ||
\* el.duration === 0)) onError(); }, 3000) of render k
SafetyTimeout(k) ==
  LET r  == call.renders[k]
      r1 == [r EXCEPT !.timer = "fired"]
  IN  /\ call.fn = "renderArchiveFromUrl"
      /\ k \in 1..Len(call.renders)
      /\ r.timer = "pending"
      /\ Assign(k, IF ~isSettled(r1) /\ r1.duration = "NaN" THEN onError(r1)
                   ELSE r1)

RenderNext ==
  \/ \E isDirectFile \in BOOLEAN : RenderArchiveFromUrl(isDirectFile)
  \/ \E k \in 1..MaxRenders : MetadataArrives(k)
  \/ \E k \in 1..MaxRenders, ev \in {"loadedmetadata", "canplay", "error"} :
       MediaEvent(k, ev)
  \/ \E k \in 1..MaxRenders : SafetyTimeout(k)

RenderSpec == RenderInit /\ [][RenderNext]_vars

\* C31: in every render at most one of the native commit and the iframe
\* fallback has happened, and a settled render has made exactly one of them
\* once; a committed render has mounted no iframe; after the fallback the
\* tick does not run and the buttons are disabled; a render whose 3000 ms
\* window has elapsed with no duration has settled.
C31_MountSettlesOnce ==
  (call.fn = "renderArchiveFromUrl") =>
    \A k \in 1..Len(call.renders) :
      LET r == call.renders[k]
      IN  r.isDirectFile =>
            /\ ~(r.committed /\ r.fellBack)
            /\ r.settled <=> (r.committed \/ r.fellBack)
            /\ r.committed => r.iframes = 0
            /\ r.fellBack => r.iframes = 1 /\ ~r.tick /\ r.disabled
            /\ r.tick => r.committed
            /\ (r.timer = "fired" /\ ~r.settled) => r.el # "loading"

\* a render fell back on its timeout and its element loaded afterwards
C31_Witness ==
  /\ call.fn = "renderArchiveFromUrl"
  /\ \E k \in 1..Len(call.renders) :
       LET r == call.renders[k]
       IN  /\ r.fellBack /\ r.timer = "fired" /\ r.el = "canplay"
           /\ ~r.tick /\ r.disabled /\ r.iframes = 1
  /\ \E k \in 1..Len(call.renders) :
       LET r == call.renders[k]
       IN  /\ r.committed /\ r.el = "failed" /\ r.timer = "fired"
           /\ r.tick /\ r.iframes = 0

\* C32: this.archiveMediaEl refers to the element the most recent call of
\* renderArchiveFromUrl mounted.
C32_LatestRenderOwnsElement ==
  (call.fn = "renderArchiveFromUrl") => call.owner = Len(call.renders)

\* ------------------------------------------------- the archive commands

\* The commands of the plugin read the view's fields _archiveMediaEl,
\* _isClipping and _clipMarkSec, which the later revision of the view keeps
\* (its saveArchiveClip is the one the prototype carries). In this
\* specification the variable archiveMediaEl is that view's _archiveMediaEl.

\* invocations of saveArchiveClip the commands make, and accepted mark starts
MaxCommands == 3
MaxMarks == 2

\* const getArchiveEl = (view) => view._archiveMediaEl instanceof
\* HTMLMediaElement ? view._archiveMediaEl : null
getArchiveEl(mounted) == IF mounted = "media" THEN <<mounted>> ELSE <<>>

\* no command has run yet
NoCommand ==
  [cmd |-> "none", refused |-> FALSE, guard |-> FALSE, before |-> <<>>,
   after |-> <<>>]

CommandInit ==
  /\ archiveMediaEl \in {"media", "iframe", "none"}
  /\ el \in [paused : BOOLEAN, ended : {FALSE}, currentTime : {0, 5}]
  /\ isClipping = FALSE
  /\ sess = [i \in Calls |-> NoSess]
  /\ call = [fn |-> "commands", isClipping |-> FALSE, clipMarkSec |-> <<>>,
             marks |-> 0, jobs |-> <<>>, last |-> NoCommand]

\* what a command leaves in `last`: its name, whether it returned at a
\* guard, _isClipping and _clipMarkSec as it found them, and _clipMarkSec
\* as it left it
Ran(cmd, refused, after) ==
  [cmd |-> cmd, refused |-> refused, guard |-> call.isClipping,
   before |-> call.clipMarkSec, after |-> after]

\* view.saveArchiveClip(a, b) up to its first await: the element is a media
\* element and _isClipping is false (the command has tested both), so the
\* guard is set and the capture begins; mark is the mark start the range
\* came from, 0 for back-clip
Job(cmd, mark) == [cmd |-> cmd, mark |-> mark, pc |-> "capture"]

\* archive-mark-start
MarkStart ==
  /\ call.fn = "commands"
  /\ IF getArchiveEl(archiveMediaEl) = <<>> \/ call.isClipping
     THEN call' = [call EXCEPT !.last = Ran("archive-mark-start", TRUE, call.clipMarkSec)]
     ELSE /\ call.marks < MaxMarks
          /\ call' = [call EXCEPT
               !.clipMarkSec = <<el.currentTime>>,
               !.marks = @ + 1,
               !.last = Ran("archive-mark-start", FALSE, <<el.currentTime>>)]
  /\ UNCHANGED captureVars

\* archive-clip-from-mark, up to `await view.saveArchiveClip?.(a, b)`
ClipFromMark ==
  /\ call.fn = "commands"
  /\ IF \/ getArchiveEl(archiveMediaEl) = <<>>
        \/ call.isClipping
        \/ call.clipMarkSec = <<>>
     THEN call' = [call EXCEPT !.last = Ran("archive-clip-from-mark", TRUE, call.clipMarkSec)]
     ELSE /\ Len(call.jobs) < MaxCommands
          /\ call' = [call EXCEPT
               !.isClipping = TRUE,
               !.jobs = Append(@, Job("archive-clip-from-mark", call.marks)),
               !.last = Ran("archive-clip-from-mark", FALSE, call.clipMarkSec)]
  /\ UNCHANGED captureVars

\* archive-backclip-10s, up to `await view.saveArchiveClip?.(start, end)`
BackClip ==
  /\ call.fn = "commands"
  /\ IF getArchiveEl(archiveMediaEl) = <<>> \/ call.isClipping
     THEN call' = [call EXCEPT !.last = Ran("archive-backclip-10s", TRUE, call.clipMarkSec)]
     ELSE /\ Len(call.jobs) < MaxCommands
          /\ call' = [call EXCEPT
               !.isClipping = TRUE,
               !.jobs = Append(@, Job("archive-backclip-10s", 0)),
               !.last = Ran("archive-backclip-10s", FALSE, call.clipMarkSec)]
  /\ UNCHANGED captureVars

\* archive-cancel-mark
CancelMark ==
  /\ call.fn = "commands"
  /\ call' = [call EXCEPT !.clipMarkSec = <<>>,
                          !.last = Ran("archive-cancel-mark", FALSE, <<>>)]
  /\ UNCHANGED captureVars

\* the command's `finally { view._clipMarkSec = undefined }`, which only
\* archive-clip-from-mark has, when saveArchiveClip has settled
settled(c, i) ==
  [c EXCEPT !.jobs[i].pc = "done",
            !.clipMarkSec = IF c.jobs[i].cmd = "archive-clip-from-mark"
                            THEN <<>> ELSE @]

\* the capture of job i ends: "failed", a failure exit that releases the
\* guard and returns at once (no source to prepare, primary not playing);
\* "released", the guard is released and saveArchiveClip goes on with
\* awaits (el.play(), the vault, the clipboard); "threw", the construction
\* of the audio graph throws outside every try, the guard staying set
CaptureSettle(i, outcome) ==
  /\ call.fn = "commands"
  /\ i \in 1..Len(call.jobs)
  /\ call.jobs[i].pc = "capture"
  /\ call' =
       CASE outcome = "failed" ->
              settled([call EXCEPT !.isClipping = FALSE], i)
         [] outcome = "released" ->
              [call EXCEPT !.isClipping = FALSE, !.jobs[i].pc = "tail"]
         [] OTHER -> settled(call, i)
  /\ UNCHANGED captureVars

\* the awaits of saveArchiveClip after the guard's release have settled: it
\* returns, or throws (clipboard.writeText is awaited outside every try)
TailSettle(i) ==
  /\ call.fn = "commands"
  /\ i \in 1..Len(call.jobs)
  /\ call.jobs[i].pc = "tail"
  /\ call' = settled(call, i)
  /\ UNCHANGED captureVars

CommandNext ==
  \/ MarkStart \/ ClipFromMark \/ BackClip \/ CancelMark
  \/ \E i \in 1..MaxCommands, outcome \in {"failed", "released", "threw"} :
       CaptureSettle(i, outcome)
  \/ \E i \in 1..MaxCommands : TailSettle(i)

CommandSpec == CommandInit /\ [][CommandNext]_vars

\* C35: no two captures of 'clip from mark' start from the same mark start
\* (the command that called saveArchiveClip has consumed the mark), and a
\* 'mark start' or 'clip from mark' that runs while the guard is set is
\* refused and leaves the mark as it was.
C35_ClipFromMarkConsumesMark ==
  (call.fn = "commands") =>
    /\ \A i, j \in 1..Len(call.jobs) :
         (/\ i # j
          /\ call.jobs[i].cmd = "archive-clip-from-mark"
          /\ call.jobs[j].cmd = "archive-clip-from-mark")
           => call.jobs[i].mark # call.jobs[j].mark
    /\ (/\ call.last.cmd \in {"archive-mark-start", "archive-clip-from-mark"}
        /\ call.last.guard)
         => call.last.refused /\ call.last.after = call.last.before

====
